---- MODULE Spec2Model ----
(***************************************************************************)
(* Model of the markdown-for-agents transformation pipeline:               *)
(*   - the section-aware block deduplicator (core/dedup.ts),               *)
(*   - the content extractor (extract/extractor.ts),                       *)
(*   - the rule registry and walker (core/converter.ts, core/walker.ts).   *)
(* Strings are sequences of one-character strings, so that trimming,       *)
(* splitting, lower-casing and whitespace collapsing are computed.         *)
(***************************************************************************)
EXTENDS Integers, Sequences, FiniteSets, TLC

(***************************************************************************)
(* Bounds of the model.                                                    *)
(***************************************************************************)
\* Largest number of palette blocks joined into one input document.
MaxBlocks == 5
\* Number of successive deduplicateBlocks calls (each on the previous result).
MaxCalls == 2
\* Largest number of blocks of a document of the second specification.
MaxBlocksLong == 6

(***************************************************************************)
(* Characters and strings.                                                 *)
(***************************************************************************)
NL == "\n"
SP == " "

\* JavaScript's \s restricted to the characters of the model's alphabet.
IsSpace(c) == c \in {SP, NL, "\t", "\r"}

\* String.prototype.toLowerCase, per character (ASCII letters).
LowerOf ==
    [A |-> "a", B |-> "b", C |-> "c", D |-> "d", E |-> "e", F |-> "f", G |-> "g",
     H |-> "h", I |-> "i", J |-> "j", K |-> "k", L |-> "l", M |-> "m", N |-> "n",
     O |-> "o", P |-> "p", Q |-> "q", R |-> "r", S |-> "s", T |-> "t", U |-> "u",
     V |-> "v", W |-> "w", X |-> "x", Y |-> "y", Z |-> "z"]

LowerChar(c) == IF c \in DOMAIN LowerOf THEN LowerOf[c] ELSE c

toLowerCase(s) == [k \in 1..Len(s) |-> LowerChar(s[k])]

RECURSIVE trimStart(_)
trimStart(s) ==
    IF s = <<>> THEN <<>>
    ELSE IF IsSpace(Head(s)) THEN trimStart(Tail(s))
    ELSE s

RECURSIVE trimEnd(_)
trimEnd(s) ==
    IF s = <<>> THEN <<>>
    ELSE IF IsSpace(s[Len(s)]) THEN trimEnd(SubSeq(s, 1, Len(s) - 1))
    ELSE s

\* String.prototype.trim
trim(s) == trimEnd(trimStart(s))

\* text.replaceAll(/\s+/g, ' ')
RECURSIVE collapseWs(_)
collapseWs(s) ==
    IF s = <<>> THEN <<>>
    ELSE IF IsSpace(Head(s)) THEN <<SP>> \o collapseWs(trimStart(s))
    ELSE <<Head(s)>> \o collapseWs(Tail(s))

\* dedup.ts normalize: text.toLowerCase().replaceAll(/\s+/g, ' ')
normalize(text) == collapseWs(toLowerCase(text))

\* HEADING_RE = /^#{1,6}\s/ tested against a string
HEADING_RE(s) ==
    \E k \in 1..6 :
        /\ k + 1 <= Len(s)
        /\ \A j \in 1..k : s[j] = "#"
        /\ IsSpace(s[k + 1])

\* Index of the first character at or after p that is not a newline.
RECURSIVE skipNewlines(_, _)
skipNewlines(s, p) ==
    IF p <= Len(s) /\ s[p] = NL THEN skipNewlines(s, p + 1) ELSE p

\* markdown.split(/\n\n+/): cur is the block being accumulated from position p.
RECURSIVE splitFrom(_, _, _)
splitFrom(s, p, cur) ==
    IF p > Len(s) THEN <<cur>>
    ELSE IF s[p] = NL /\ p + 1 <= Len(s) /\ s[p + 1] = NL
         THEN <<cur>> \o splitFrom(s, skipNewlines(s, p), <<>>)
         ELSE splitFrom(s, p + 1, Append(cur, s[p]))

splitBlocks(markdown) == splitFrom(markdown, 1, <<>>)

\* kept.join('\n\n')
RECURSIVE joinBlocks(_)
joinBlocks(bs) ==
    IF bs = <<>> THEN <<>>
    ELSE IF Len(bs) = 1 THEN bs[1]
    ELSE bs[1] \o <<NL, NL>> \o joinBlocks(Tail(bs))

(***************************************************************************)
(* Inputs of the deduplicator.                                             *)
(***************************************************************************)
DEFAULT_MIN_LENGTH == 10

\* Blocks the input documents are assembled from.  Fingerprint lengths:
\* HeadingA 3, HeadingAB 6, Short 8, Long 11; section fingerprints:
\* HeadingA+Short 12, HeadingA+Long 15, HeadingAB+Short 15, HeadingAB+Long 18.
\* HeadingA+Long and HeadingAB+Short have the same words, split differently.
HeadingA == <<"#", SP, "a">>
HeadingAB == <<"#", SP, "a", SP, "A", "b">>
Short == <<"c", "d", SP, "c", "d", SP, "c", "d">>
Long == <<"A", "b", NL, "c", "d", SP, SP, "c", "d", SP, "c", "d">>
Blank == <<SP>>

Palette == { HeadingA, HeadingAB, Short, Long, Blank }

\* The minLength argument: absent (<<>>) or a number.  8 makes every block
\* eligible, the default 10 exempts Short, 12 exempts Short and Long and is
\* the length of the shortest section fingerprint.
MinLengthArgs == { <<>>, <<8>>, <<12>> }

SeqsUpTo(S, n) == UNION { [1..k -> S] : k \in 0..n }

Documents == { joinBlocks(bs) : bs \in SeqsUpTo(Palette, MaxBlocks) }

(***************************************************************************)
(* State.                                                                  *)
(***************************************************************************)
VARIABLES
    markdown,   \* argument of the current deduplicateBlocks call
    minLengthArg, \* the caller's minLength argument, <<>> when omitted
    blocks,     \* dedup: markdown.split(/\n\n+/)
    i,          \* dedup: the forward cursor (0-based)
    seen,       \* dedup: set of registered fingerprints
    kept,       \* dedup: list of kept blocks
    keptIdx,    \* history: indices (0-based) of the blocks pushed to kept
    pc,         \* "idle" | "loop" | "done"
    results,    \* results of the calls made so far, oldest first
    tree,       \* extract: the parsed input document (never mutated)
    children,   \* extract: node -> its ordered children (node.children)
    parentOf,   \* extract: node -> <<parent>>, or <<>> once cleared (child.parent)
    options,    \* extract: the caller's ExtractOptions
    stack,      \* extract: the pruneTree activations, innermost last
    lastIndex,  \* extract: lastIndex of the caller's global regular expression
    epc,        \* extract: "off" | "idle" | "prune" | "done"
    run,        \* extract: "baseline" (no options) | "configured" (options)
    remaining,  \* extract: run -> nodes still in the document when it returned
    wtree,      \* walk: the parsed document handed to convert
    userRules,  \* walk: options.rules, in the order given
    allRules,   \* walk: the merged, sorted rule list of this convert call
    wstack,     \* walk: the walk activations, innermost last
    wpc,        \* walk: "off" | "idle" | "walk" | "done"
    output,     \* walk: the string walk(document) returned
    evals,      \* history: element -> the replacement calls made for it, in order
    applied,    \* history: elements for which applyRules has returned
    emitted,    \* history: element -> <<fragment>> pushed for it, <<>> if none
    fellBack,   \* history: element -> <<result>> of applyRules' own walk, <<>> if none
    pushLog,    \* history: element -> <<how walk took the value applyRules returned>>
    convertOptions, \* walk: the resolved options the rules read
    cpc,        \* convert: "off" | "idle" | "dedup" | "count" | "returned"
    deduplicate, \* convert: opts.deduplicate, [on, minLength]
    tokenCounter, \* convert: opts.tokenCounter, <<>> when absent
    rendered,   \* convert: what render(raw) returned
    counterLog, \* history: the calls of a token counter, [counter, text]
    convertResult, \* history: the ConvertResult of every call that has returned
    cached,     \* rules/index: <<[rules, built, calls]>>, <<>> while null
    thrown,     \* history: the exceptions raised during the call, [site]
    http        \* middleware: the request and response of one exchange, <<>> when off

dedupVars == <<markdown, minLengthArg, blocks, i, seen, kept, keptIdx, pc, results>>
extractVars == <<tree, children, parentOf, options, stack, lastIndex, epc, run, remaining>>
walkVars == <<wtree, userRules, allRules, wstack, wpc, output, evals, applied, emitted, fellBack, pushLog,
              convertOptions>>
convertVars == <<cpc, deduplicate, tokenCounter, rendered, counterLog, convertResult, cached,
                 thrown, http>>
vars == <<dedupVars, extractVars, walkVars, convertVars>>

\* A variant that ignores the argument and always uses the default.
minLength_Constant == DEFAULT_MIN_LENGTH

\* minLength: number = DEFAULT_MIN_LENGTH
minLength == IF minLengthArg = <<>> THEN DEFAULT_MIN_LENGTH ELSE minLengthArg[1]

\* A variant that reads the first block whatever the index.
block_First(k) == blocks[1]

\* blocks[k], k counting from 0
block(k) == blocks[k + 1]

\* The stages of convert after the walk take no part in the stages' own
\* specifications.
ConvertOff ==
    /\ cpc = "off"
    /\ deduplicate = [on |-> FALSE, minLength |-> <<>>]
    /\ tokenCounter = <<>>
    /\ rendered = <<>>
    /\ counterLog = <<>>
    /\ convertResult = <<>>
    /\ cached = <<>>
    /\ thrown = <<>>
    /\ http = <<>>

\* The walker takes no part in the other stages' specifications.
WalkOff ==
    /\ wtree = [n |-> 0, par |-> <<>>, kind |-> <<>>]
    /\ userRules = <<>>
    /\ allRules = <<>>
    /\ wstack = <<>>
    /\ wpc = "off"
    /\ output = <<>>
    /\ evals = <<>>
    /\ applied = {}
    /\ emitted = <<>>
    /\ fellBack = <<>>
    /\ pushLog = <<>>
    /\ convertOptions = <<>>

\* The extractor takes no part in the deduplicator's specifications.
ExtractOff ==
    /\ tree = [n |-> 0, par |-> <<>>, kind |-> <<>>]
    /\ children = <<>>
    /\ parentOf = <<>>
    /\ options = <<>>
    /\ stack = <<>>
    /\ lastIndex = 0
    /\ epc = "off"
    /\ run = "baseline"
    /\ remaining = <<>>

Init ==
    /\ ExtractOff
    /\ WalkOff
    /\ ConvertOff
    /\ markdown \in Documents
    /\ minLengthArg \in MinLengthArgs
    /\ blocks = <<>>
    /\ i = 0
    /\ seen = {}
    /\ kept = <<>>
    /\ keptIdx = <<>>
    /\ pc = "idle"
    /\ results = <<>>

(***************************************************************************)
(* dedup.ts helpers.                                                       *)
(***************************************************************************)
RECURSIVE findNextNonEmptyIndex(_, _)
findNextNonEmptyIndex(bs, start) ==
    IF start < Len(bs) /\ trim(bs[start + 1]) = <<>>
    THEN findNextNonEmptyIndex(bs, start + 1)
    ELSE start

isDuplicate(s, fingerprint, minLen) ==
    Len(fingerprint) >= minLen /\ fingerprint \in s

\* A variant whose floor comparison is strict.
registerFingerprint_Strict(s, fingerprint, minLen) ==
    IF Len(fingerprint) > minLen THEN s \cup {fingerprint} ELSE s

registerFingerprint(s, fingerprint, minLen) ==
    IF Len(fingerprint) >= minLen THEN s \cup {fingerprint} ELSE s

\* A variant that registers the section fingerprint only.
registerSection_SectionOnly(s, sectionFp, contentFp, minLen) ==
    registerFingerprint(s, sectionFp, minLen)

\* processHeadingBlock: the two registerFingerprint calls for a kept section.
registerSection(s, sectionFp, contentFp, minLen) ==
    registerFingerprint(registerFingerprint(s, sectionFp, minLen), contentFp, minLen)

(***************************************************************************)
(* deduplicateBlocks.                                                      *)
(***************************************************************************)
\* Entry of a call: split the argument and reset the locals.
Call ==
    /\ pc = "idle"
    /\ blocks' = splitBlocks(markdown)
    /\ seen' = {}
    /\ kept' = <<>>
    /\ keptIdx' = <<>>
    /\ i' = 0
    /\ pc' = "loop"
    /\ UNCHANGED <<markdown, minLengthArg, results>>
    /\ UNCHANGED <<extractVars, walkVars, convertVars>>

\* if (!trimmed) { i++; continue; }
SkipEmpty ==
    /\ pc = "loop"
    /\ i < Len(blocks)
    /\ trim(block(i)) = <<>>
    /\ i' = i + 1
    /\ UNCHANGED <<markdown, minLengthArg, blocks, seen, kept, keptIdx, pc, results>>
    /\ UNCHANGED <<extractVars, walkVars, convertVars>>

\* A variant that forgets to test whether the next block is a heading.
hasContent_AnyNext(bs, k) ==
    LET nextIdx == findNextNonEmptyIndex(bs, k + 1)
    IN  nextIdx < Len(bs) /\ trim(bs[nextIdx + 1]) # <<>>

\* processHeadingBlock: whether the heading at k is followed by a content block.
hasContent(bs, k) ==
    LET nextIdx == findNextNonEmptyIndex(bs, k + 1)
        nextTrimmed == IF nextIdx < Len(bs) THEN trim(bs[nextIdx + 1]) ELSE <<>>
    IN  nextTrimmed # <<>> /\ ~HEADING_RE(nextTrimmed)

ProcessHeadingBlock ==
    /\ pc = "loop"
    /\ i < Len(blocks)
    /\ trim(block(i)) # <<>>
    /\ HEADING_RE(trim(block(i)))
    /\ LET trimmed == trim(block(i))
           nextIdx == findNextNonEmptyIndex(blocks, i + 1)
           nextTrimmed == IF nextIdx < Len(blocks) THEN trim(block(nextIdx)) ELSE <<>>
           sectionFp == normalize(trimmed \o <<SP>> \o nextTrimmed)
       IN  IF ~hasContent(blocks, i)
           THEN /\ kept' = Append(kept, block(i))
                /\ keptIdx' = Append(keptIdx, i)
                /\ i' = i + 1
                /\ UNCHANGED seen
           ELSE IF isDuplicate(seen, sectionFp, minLength)
           THEN /\ i' = nextIdx + 1
                /\ UNCHANGED <<seen, kept, keptIdx>>
           ELSE /\ seen' = registerSection(seen, sectionFp, normalize(nextTrimmed), minLength)
                /\ kept' = kept \o <<block(i), block(nextIdx)>>
                /\ keptIdx' = keptIdx \o <<i, nextIdx>>
                /\ i' = nextIdx + 1
    /\ UNCHANGED <<markdown, minLengthArg, blocks, pc, results>>
    /\ UNCHANGED <<extractVars, walkVars, convertVars>>

\* processContentBlock followed by i++.
ProcessContentBlock ==
    /\ pc = "loop"
    /\ i < Len(blocks)
    /\ trim(block(i)) # <<>>
    /\ ~HEADING_RE(trim(block(i)))
    /\ LET fingerprint == normalize(trim(block(i)))
       IN  IF isDuplicate(seen, fingerprint, minLength)
           THEN UNCHANGED <<seen, kept, keptIdx>>
           ELSE /\ seen' = registerFingerprint(seen, fingerprint, minLength)
                /\ kept' = Append(kept, block(i))
                /\ keptIdx' = Append(keptIdx, i)
    /\ i' = i + 1
    /\ UNCHANGED <<markdown, minLengthArg, blocks, pc, results>>
    /\ UNCHANGED <<extractVars, walkVars, convertVars>>

\* return kept.join('\n\n').trim() + '\n'
Return ==
    /\ pc = "loop"
    /\ i >= Len(blocks)
    /\ results' = Append(results, Append(trim(joinBlocks(kept)), NL))
    /\ pc' = "done"
    /\ UNCHANGED <<markdown, minLengthArg, blocks, i, seen, kept, keptIdx>>
    /\ UNCHANGED <<extractVars, walkVars, convertVars>>

\* The caller feeds the result to another call with the same minLength.
CallAgain ==
    /\ pc = "done"
    /\ Len(results) < MaxCalls
    /\ markdown' = results[Len(results)]
    /\ pc' = "idle"
    /\ UNCHANGED <<minLengthArg, blocks, i, seen, kept, keptIdx, results>>
    /\ UNCHANGED <<extractVars, walkVars, convertVars>>

Next ==
    \/ Call
    \/ SkipEmpty
    \/ ProcessHeadingBlock
    \/ ProcessContentBlock
    \/ Return
    \/ CallAgain

Spec == Init /\ [][Next]_vars

(***************************************************************************)
(* A second specification of the deduplicator: documents of up to          *)
(* MaxBlocksLong blocks over a heading and two paragraphs, for the         *)
(* properties that need long documents.                                    *)
(***************************************************************************)
PaletteLong == { HeadingA, Short, Long }

DocumentsLong == { joinBlocks(bs) : bs \in SeqsUpTo(PaletteLong, MaxBlocksLong) }

InitLong ==
    /\ ExtractOff
    /\ WalkOff
    /\ ConvertOff
    /\ markdown \in DocumentsLong
    /\ minLengthArg \in MinLengthArgs
    /\ blocks = <<>>
    /\ i = 0
    /\ seen = {}
    /\ kept = <<>>
    /\ keptIdx = <<>>
    /\ pc = "idle"
    /\ results = <<>>

SpecLong == InitLong /\ [][Next]_vars

(***************************************************************************)
(* Vocabulary of the deduplicator's claims, stated on the input blocks and *)
(* on the record of what was kept, independently of the helpers above.     *)
(***************************************************************************)
BlockIdx == 0..(Len(blocks) - 1)
NonEmpty(k) == trim(block(k)) # <<>>
IsHeading(k) == NonEmpty(k) /\ HEADING_RE(trim(block(k)))
KeptSet == { keptIdx[j] : j \in 1..Len(keptIdx) }
Fingerprint(k) == normalize(trim(block(k)))

\* The non-empty blocks after k, and the first of them (-1 when there is none).
LaterNonEmpty(k) == { n \in BlockIdx : n > k /\ NonEmpty(n) }
NextNonEmpty(k) ==
    IF LaterNonEmpty(k) = {} THEN -1
    ELSE CHOOSE n \in LaterNonEmpty(k) : \A m \in LaterNonEmpty(k) : n <= m
EarlierNonEmpty(k) == { n \in BlockIdx : n < k /\ NonEmpty(n) }
PrevNonEmpty(k) ==
    IF EarlierNonEmpty(k) = {} THEN -1
    ELSE CHOOSE n \in EarlierNonEmpty(k) : \A m \in EarlierNonEmpty(k) : n >= m

\* A heading followed by another heading, or by nothing.
Standalone(k) ==
    /\ IsHeading(k)
    /\ NextNonEmpty(k) = -1 \/ IsHeading(NextNonEmpty(k))
\* A heading that opens a section, and the section's content block.
SectionHead(k) == IsHeading(k) /\ ~Standalone(k)
SectionContent(k) ==
    /\ NonEmpty(k) /\ ~IsHeading(k)
    /\ PrevNonEmpty(k) # -1 /\ IsHeading(PrevNonEmpty(k))
\* A non-heading block that is processed on its own.
OnItsOwn(k) == NonEmpty(k) /\ ~IsHeading(k) /\ ~SectionContent(k)
SectionFp(h) ==
    normalize(trim(block(h)) \o <<SP>> \o trim(block(NextNonEmpty(h))))
\* The section fingerprint a block was matched on, for a block of a section.
OwnSectionFp(k) ==
    IF SectionHead(k) THEN SectionFp(k) ELSE SectionFp(PrevNonEmpty(k))

Removed(k) == NonEmpty(k) /\ k \notin KeptSet
\* The floor the caller asked for.
Floor == IF minLengthArg = <<>> THEN 10 ELSE minLengthArg[1]
Finished == pc = "done"

\* C1: every removed non-empty block has the fingerprint of an earlier block
\* of the input that was kept.
C1_RemovedOnlyIfDuplicate ==
    Finished =>
        \A k \in BlockIdx :
            Removed(k) =>
                \E j \in BlockIdx :
                    j < k /\ j \in KeptSet /\ Fingerprint(j) = Fingerprint(k)

\* C2: deduplicating the result of a deduplication changes nothing.
C2_Idempotent ==
    Len(results) >= 2 => results[2] = results[1]

C4_StandaloneHeadingKept ==
    [][ (pc = "loop" /\ i < Len(blocks) /\ Standalone(i))
          => (/\ i' = i + 1
              /\ kept' = Append(kept, block(i))
              /\ seen' = seen) ]_vars

C4_Witness ==
    /\ pc = "loop"
    /\ \E k \in BlockIdx :
          /\ k < i /\ Standalone(k) /\ k \in KeptSet
          /\ \E j \in BlockIdx : j < k /\ IsHeading(j) /\ j \in KeptSet
                /\ Fingerprint(j) = Fingerprint(k)

\* C5: among the sections with one section fingerprint of at least minLength
\* characters the first is kept and the later ones are dropped as pairs; among
\* the blocks processed on their own with one such fingerprint all but the
\* first are dropped; and kept only grows at its end during a call.
C5_FirstOccurrenceWins ==
    /\ [](Finished =>
           /\ \A h \in BlockIdx :
                (SectionHead(h) /\ Len(SectionFp(h)) >= Floor) =>
                    IF \E g \in BlockIdx :
                           g < h /\ SectionHead(g) /\ SectionFp(g) = SectionFp(h)
                    THEN h \notin KeptSet /\ NextNonEmpty(h) \notin KeptSet
                    ELSE h \in KeptSet /\ NextNonEmpty(h) \in KeptSet
           /\ \A k \in BlockIdx :
                (OnItsOwn(k) /\ Len(Fingerprint(k)) >= Floor
                   /\ \E j \in BlockIdx :
                          j < k /\ OnItsOwn(j) /\ Fingerprint(j) = Fingerprint(k))
                  => k \notin KeptSet)
    /\ [][ pc = "loop" =>
             /\ Len(kept') >= Len(kept)
             /\ SubSeq(kept', 1, Len(kept)) = kept ]_vars

C5_Witness ==
    /\ Finished
    /\ \E h \in BlockIdx :
          /\ SectionHead(h) /\ h \notin KeptSet
          /\ \E g \in BlockIdx : g < h /\ SectionHead(g) /\ g \in KeptSet
                /\ SectionFp(g) = SectionFp(h)
    /\ \E k \in BlockIdx :
          /\ OnItsOwn(k) /\ k \notin KeptSet
          /\ \E j \in BlockIdx : j < k /\ OnItsOwn(j) /\ j \in KeptSet
                /\ Fingerprint(j) = Fingerprint(k)

\* The sections that were kept and whose content block has a fingerprint of
\* at least minLength characters; the later blocks with that content.
KeptSections ==
    { h \in BlockIdx : /\ SectionHead(h)
                       /\ h \in KeptSet
                       /\ Len(Fingerprint(NextNonEmpty(h))) >= Floor }
Recurrences(h) ==
    { k \in BlockIdx : /\ k > NextNonEmpty(h)
                       /\ NonEmpty(k)
                       /\ ~IsHeading(k)
                       /\ Fingerprint(k) = Fingerprint(NextNonEmpty(h)) }

\* C27 (as claimed): once a section is kept whose content has a fingerprint of
\* at least minLength characters, every later block with the same content is
\* dropped, under whatever heading it stands or on its own.
C27_ContentOriginal ==
    Finished => \A h \in KeptSections : \A k \in Recurrences(h) : k \notin KeptSet

\* C27 (amended): every later block with that content that is processed on its
\* own is dropped; one that directly follows a heading is the content of a
\* section, and is dropped exactly when an earlier section has the same
\* section fingerprint, so under a heading not seen with it before it is kept.
C27_ContentAmended ==
    Finished =>
        \A h \in KeptSections : \A k \in Recurrences(h) :
            IF OnItsOwn(k) THEN k \notin KeptSet
            ELSE (k \notin KeptSet) <=>
                     \E g \in BlockIdx : /\ g < PrevNonEmpty(k)
                                          /\ SectionHead(g)
                                          /\ SectionFp(g) = SectionFp(PrevNonEmpty(k))

C27_Witness ==
    /\ Finished
    /\ \E h \in KeptSections :
          /\ \E k \in Recurrences(h) : OnItsOwn(k) /\ k \notin KeptSet
          /\ \E k \in Recurrences(h) : SectionContent(k) /\ k \in KeptSet

(***************************************************************************)
(* The extractor: extract/selectors.ts and extract/extractor.ts.           *)
(***************************************************************************)
\* Largest number of nodes below the Document node.
MaxNodes == 3

DEFAULT_STRIP_TAGS ==
    {"nav", "footer", "header", "aside", "script", "style", "noscript",
     "template", "iframe", "svg", "form"}

DEFAULT_STRIP_ROLES ==
    {"navigation", "banner", "contentinfo", "complementary", "search", "menu",
     "menubar"}

\* selectors.ts DEFAULT_STRIP_CLASSES: each regular expression is the ordered
\* list of the literals it can match, with its \b anchors and flags.
DEFAULT_STRIP_CLASSES ==
    << \* /\bad[s-]?\b/i
       [kind |-> "regex", alts |-> <<<<"a", "d", "s">>, <<"a", "d", "-">>, <<"a", "d">>>>, startB |-> TRUE, endB |-> TRUE, icase |-> TRUE, global |-> FALSE],
       \* /\bsidebar\b/i
       [kind |-> "regex", alts |-> <<<<"s", "i", "d", "e", "b", "a", "r">>>>, startB |-> TRUE, endB |-> TRUE, icase |-> TRUE, global |-> FALSE],
       \* /\bwidget\b/i
       [kind |-> "regex", alts |-> <<<<"w", "i", "d", "g", "e", "t">>>>, startB |-> TRUE, endB |-> TRUE, icase |-> TRUE, global |-> FALSE],
       \* /\bcookie/i
       [kind |-> "regex", alts |-> <<<<"c", "o", "o", "k", "i", "e">>>>, startB |-> TRUE, endB |-> FALSE, icase |-> TRUE, global |-> FALSE],
       \* /\bpopup\b/i
       [kind |-> "regex", alts |-> <<<<"p", "o", "p", "u", "p">>>>, startB |-> TRUE, endB |-> TRUE, icase |-> TRUE, global |-> FALSE],
       \* /\bmodal\b/i
       [kind |-> "regex", alts |-> <<<<"m", "o", "d", "a", "l">>>>, startB |-> TRUE, endB |-> TRUE, icase |-> TRUE, global |-> FALSE],
       \* /\bbreadcrumb/i
       [kind |-> "regex", alts |-> <<<<"b", "r", "e", "a", "d", "c", "r", "u", "m", "b">>>>, startB |-> TRUE, endB |-> FALSE, icase |-> TRUE, global |-> FALSE],
       \* /\bfootnote/i
       [kind |-> "regex", alts |-> <<<<"f", "o", "o", "t", "n", "o", "t", "e">>>>, startB |-> TRUE, endB |-> FALSE, icase |-> TRUE, global |-> FALSE],
       \* /\bshare/i
       [kind |-> "regex", alts |-> <<<<"s", "h", "a", "r", "e">>>>, startB |-> TRUE, endB |-> FALSE, icase |-> TRUE, global |-> FALSE],
       \* /\bsocial/i
       [kind |-> "regex", alts |-> <<<<"s", "o", "c", "i", "a", "l">>>>, startB |-> TRUE, endB |-> FALSE, icase |-> TRUE, global |-> FALSE],
       \* /\bnewsletter/i
       [kind |-> "regex", alts |-> <<<<"n", "e", "w", "s", "l", "e", "t", "t", "e", "r">>>>, startB |-> TRUE, endB |-> FALSE, icase |-> TRUE, global |-> FALSE],
       \* /\bcomment/i
       [kind |-> "regex", alts |-> <<<<"c", "o", "m", "m", "e", "n", "t">>>>, startB |-> TRUE, endB |-> FALSE, icase |-> TRUE, global |-> FALSE],
       \* /\brelated/i
       [kind |-> "regex", alts |-> <<<<"r", "e", "l", "a", "t", "e", "d">>>>, startB |-> TRUE, endB |-> FALSE, icase |-> TRUE, global |-> FALSE],
       \* /\bcta\b/i
       [kind |-> "regex", alts |-> <<<<"c", "t", "a">>>>, startB |-> TRUE, endB |-> TRUE, icase |-> TRUE, global |-> FALSE],
       \* /\bcall-to-action/i
       [kind |-> "regex", alts |-> <<<<"c", "a", "l", "l", "-", "t", "o", "-", "a", "c", "t", "i", "o", "n">>>>, startB |-> TRUE, endB |-> FALSE, icase |-> TRUE, global |-> FALSE],
       \* /\bauthor[-_]?(bio|card|info|box)\b/i
       [kind |-> "regex", alts |-> <<<<"a", "u", "t", "h", "o", "r", "-", "b", "i", "o">>, <<"a", "u", "t", "h", "o", "r", "-", "c", "a", "r", "d">>, <<"a", "u", "t", "h", "o", "r", "-", "i", "n", "f", "o">>, <<"a", "u", "t", "h", "o", "r", "-", "b", "o", "x">>, <<"a", "u", "t", "h", "o", "r", "_", "b", "i", "o">>, <<"a", "u", "t", "h", "o", "r", "_", "c", "a", "r", "d">>, <<"a", "u", "t", "h", "o", "r", "_", "i", "n", "f", "o">>, <<"a", "u", "t", "h", "o", "r", "_", "b", "o", "x">>, <<"a", "u", "t", "h", "o", "r", "b", "i", "o">>, <<"a", "u", "t", "h", "o", "r", "c", "a", "r", "d">>, <<"a", "u", "t", "h", "o", "r", "i", "n", "f", "o">>, <<"a", "u", "t", "h", "o", "r", "b", "o", "x">>>>, startB |-> TRUE, endB |-> TRUE, icase |-> TRUE, global |-> FALSE],
       \* /\bavatar\b/i
       [kind |-> "regex", alts |-> <<<<"a", "v", "a", "t", "a", "r">>>>, startB |-> TRUE, endB |-> TRUE, icase |-> TRUE, global |-> FALSE],
       \* /\bpagination\b/i
       [kind |-> "regex", alts |-> <<<<"p", "a", "g", "i", "n", "a", "t", "i", "o", "n">>>>, startB |-> TRUE, endB |-> TRUE, icase |-> TRUE, global |-> FALSE],
       \* /\bprev[-_]?next\b/i
       [kind |-> "regex", alts |-> <<<<"p", "r", "e", "v", "-", "n", "e", "x", "t">>, <<"p", "r", "e", "v", "_", "n", "e", "x", "t">>, <<"p", "r", "e", "v", "n", "e", "x", "t">>>>, startB |-> TRUE, endB |-> TRUE, icase |-> TRUE, global |-> FALSE],
       \* /\bpager\b/i
       [kind |-> "regex", alts |-> <<<<"p", "a", "g", "e", "r">>>>, startB |-> TRUE, endB |-> TRUE, icase |-> TRUE, global |-> FALSE],
       \* /\bpost[-_]?nav/i
       [kind |-> "regex", alts |-> <<<<"p", "o", "s", "t", "-", "n", "a", "v">>, <<"p", "o", "s", "t", "_", "n", "a", "v">>, <<"p", "o", "s", "t", "n", "a", "v">>>>, startB |-> TRUE, endB |-> FALSE, icase |-> TRUE, global |-> FALSE],
       \* /\barticle[-_]?nav/i
       [kind |-> "regex", alts |-> <<<<"a", "r", "t", "i", "c", "l", "e", "-", "n", "a", "v">>, <<"a", "r", "t", "i", "c", "l", "e", "_", "n", "a", "v">>, <<"a", "r", "t", "i", "c", "l", "e", "n", "a", "v">>>>, startB |-> TRUE, endB |-> FALSE, icase |-> TRUE, global |-> FALSE],
       \* /\bback[-_]?link/i
       [kind |-> "regex", alts |-> <<<<"b", "a", "c", "k", "-", "l", "i", "n", "k">>, <<"b", "a", "c", "k", "_", "l", "i", "n", "k">>, <<"b", "a", "c", "k", "l", "i", "n", "k">>>>, startB |-> TRUE, endB |-> FALSE, icase |-> TRUE, global |-> FALSE] >>
\* selectors.ts DEFAULT_STRIP_IDS
DEFAULT_STRIP_IDS ==
    << \* /\bad[s-]?\b/i
       [kind |-> "regex", alts |-> <<<<"a", "d", "s">>, <<"a", "d", "-">>, <<"a", "d">>>>, startB |-> TRUE, endB |-> TRUE, icase |-> TRUE, global |-> FALSE],
       \* /\bsidebar\b/i
       [kind |-> "regex", alts |-> <<<<"s", "i", "d", "e", "b", "a", "r">>>>, startB |-> TRUE, endB |-> TRUE, icase |-> TRUE, global |-> FALSE],
       \* /\bcookie/i
       [kind |-> "regex", alts |-> <<<<"c", "o", "o", "k", "i", "e">>>>, startB |-> TRUE, endB |-> FALSE, icase |-> TRUE, global |-> FALSE],
       \* /\bpopup\b/i
       [kind |-> "regex", alts |-> <<<<"p", "o", "p", "u", "p">>>>, startB |-> TRUE, endB |-> TRUE, icase |-> TRUE, global |-> FALSE],
       \* /\bmodal\b/i
       [kind |-> "regex", alts |-> <<<<"m", "o", "d", "a", "l">>>>, startB |-> TRUE, endB |-> TRUE, icase |-> TRUE, global |-> FALSE] >>

\* The caller's patterns: the regular expression /promo/g, whose lastIndex is
\* state of the caller's object, and the string 'promo'.
PromoText == <<"p", "r", "o", "m", "o">>
PromoGlobalRe ==
    [kind |-> "regex", alts |-> <<PromoText>>, startB |-> FALSE, endB |-> FALSE,
     icase |-> FALSE, global |-> TRUE]
PromoString == [kind |-> "string", text |-> PromoText]

\* options?.x ?? default, for an absent options argument.
NoOptions ==
    [stripTags |-> {}, stripRoles |-> {}, stripClasses |-> <<>>, stripIds |-> <<>>,
     keepHeader |-> FALSE, keepFooter |-> FALSE, keepNav |-> FALSE]

OptionsPalette ==
    { NoOptions,
      [NoOptions EXCEPT !.keepNav = TRUE],
      [NoOptions EXCEPT !.stripTags = {"aside"}, !.stripClasses = <<PromoGlobalRe>>],
      [NoOptions EXCEPT !.keepHeader = TRUE, !.stripTags = {"header"},
                        !.stripClasses = <<PromoString>>] }

\* Nodes as the parser builds them.  An attribute is <<value>>, or <<>> when
\* the element does not carry it.
NoAttribs == [role |-> <<>>, class |-> <<>>, id |-> <<>>]
TextNode == [type |-> "text", name |-> "", attribs |-> NoAttribs]
Element(name, attribs) == [type |-> "tag", name |-> name, attribs |-> attribs]

NodeKinds ==
    { TextNode,
      Element("div", NoAttribs),
      Element("header", NoAttribs),
      Element("header", [NoAttribs EXCEPT !.role = <<"banner">>]),
      Element("nav", NoAttribs),
      Element("div", [NoAttribs EXCEPT !.class = <<PromoText>>]) }

isTag(node) == node.type = "tag"

\* Node 0 is the Document; nodes 1..n are numbered in document order.
RECURSIVE AncestorsOrSelf(_, _)
AncestorsOrSelf(par, k) ==
    IF k = 0 THEN {0} ELSE {k} \cup AncestorsOrSelf(par, par[k])

WellFormed(t) ==
    \A k \in 1..t.n :
        /\ t.par[k] \in AncestorsOrSelf(t.par, k - 1)
        /\ t.par[k] # 0 => isTag(t.kind[t.par[k]])

Trees ==
    UNION { { t \in [n : {n}, par : [1..n -> 0..(n - 1)], kind : [1..n -> NodeKinds]] :
                WellFormed(t) } : n \in 0..MaxNodes }

RECURSIVE ascending(_)
ascending(S) ==
    IF S = {} THEN <<>>
    ELSE LET m == CHOOSE x \in S : \A y \in S : x <= y
         IN  <<m>> \o ascending(S \ {m})

\* The children lists and parent references of a freshly parsed document.
parsedChildren(t) == [p \in 0..t.n |-> ascending({k \in 1..t.n : t.par[k] = p})]
parsedParents(t) == [k \in 1..t.n |-> <<t.par[k]>>]

\* \w of a regular expression.
WordChars ==
    DOMAIN LowerOf \cup { LowerOf[x] : x \in DOMAIN LowerOf }
        \cup {"0", "1", "2", "3", "4", "5", "6", "7", "8", "9", "_"}
IsWordChar(c) == c \in WordChars

\* \b between the characters k and k+1 of value (k in 0..Len(value)).
WordBoundary(value, k) ==
    (k >= 1 /\ IsWordChar(value[k])) # (k + 1 <= Len(value) /\ IsWordChar(value[k + 1]))

\* Whether the literal lit of the regular expression re matches at position p.
matchAt(re, value, p, lit) ==
    /\ p + Len(lit) - 1 <= Len(value)
    /\ \A k \in 1..Len(lit) :
          IF re.icase THEN LowerChar(value[p + k - 1]) = LowerChar(lit[k])
          ELSE value[p + k - 1] = lit[k]
    /\ re.startB => WordBoundary(value, p - 1)
    /\ re.endB => WordBoundary(value, p + Len(lit) - 1)

\* RegExp.prototype.test: a global expression searches from its lastIndex,
\* leaves it after the match, and resets it to 0 when nothing matches.
regexTest(re, value, li) ==
    LET from == IF re.global THEN li ELSE 0
        hits == { p \in (from + 1)..Len(value) :
                    \E a \in 1..Len(re.alts) : matchAt(re, value, p, re.alts[a]) }
    IN  IF hits = {}
        THEN [res |-> FALSE, li |-> IF re.global THEN 0 ELSE li]
        ELSE LET p == CHOOSE x \in hits : \A y \in hits : x <= y
                 a == CHOOSE x \in 1..Len(re.alts) :
                          /\ matchAt(re, value, p, re.alts[x])
                          /\ \A y \in 1..(x - 1) : ~matchAt(re, value, p, re.alts[y])
             IN  [res |-> TRUE,
                  li |-> IF re.global THEN p - 1 + Len(re.alts[a]) ELSE li]

\* value.includes(pattern)
includes(value, text) ==
    \E p \in 1..(Len(value) + 1) :
        /\ p + Len(text) - 1 <= Len(value)
        /\ \A k \in 1..Len(text) : value[p + k - 1] = text[k]

\* matchesAny, from pattern k on: the result and the lastIndex it leaves.
RECURSIVE matchesAnyFrom(_, _, _, _)
matchesAnyFrom(value, patterns, k, li) ==
    IF k > Len(patterns) THEN [res |-> FALSE, li |-> li]
    ELSE IF patterns[k].kind = "string"
         THEN IF includes(value, patterns[k].text)
              THEN [res |-> TRUE, li |-> li]
              ELSE matchesAnyFrom(value, patterns, k + 1, li)
         ELSE LET t == regexTest(patterns[k], value, li)
              IN  IF t.res THEN t ELSE matchesAnyFrom(value, patterns, k + 1, t.li)

matchesAny(value, patterns, li) == matchesAnyFrom(value, patterns, 1, li)

\* A variant in which the caller's tags replace the defaults.
stripTagsOf_Replace(o) ==
    LET all == IF o.stripTags # {} THEN o.stripTags ELSE DEFAULT_STRIP_TAGS
        h == IF o.keepHeader THEN all \ {"header"} ELSE all
        f == IF o.keepFooter THEN h \ {"footer"} ELSE h
    IN  IF o.keepNav THEN f \ {"nav"} ELSE f

\* A variant that applies the keep flags before merging the caller's tags.
stripTagsOf_KeepBeforeMerge(o) ==
    LET h == IF o.keepHeader THEN DEFAULT_STRIP_TAGS \ {"header"} ELSE DEFAULT_STRIP_TAGS
        f == IF o.keepFooter THEN h \ {"footer"} ELSE h
        n == IF o.keepNav THEN f \ {"nav"} ELSE f
    IN  n \cup o.stripTags

\* extractContent: the sets and lists built from the defaults and the options.
stripTagsOf(o) ==
    LET all == DEFAULT_STRIP_TAGS \cup o.stripTags
        h == IF o.keepHeader THEN all \ {"header"} ELSE all
        f == IF o.keepFooter THEN h \ {"footer"} ELSE h
    IN  IF o.keepNav THEN f \ {"nav"} ELSE f
stripRolesOf(o) == DEFAULT_STRIP_ROLES \cup o.stripRoles
stripClassesOf(o) == DEFAULT_STRIP_CLASSES \o o.stripClasses
stripIdsOf(o) == DEFAULT_STRIP_IDS \o o.stripIds

\* A truthy attribute: present and not the empty string.  Roles are kept as
\* whole strings, class and id values as character sequences.
truthyRole(attr) == attr # <<>> /\ attr[1] # ""
truthy(attr) == attr # <<>> /\ attr[1] # <<>>

\* shouldStrip: the verdict and the lastIndex the pattern tests leave.
shouldStrip(el, o, li) ==
    IF el.name \in stripTagsOf(o) THEN [res |-> TRUE, li |-> li]
    ELSE IF truthyRole(el.attribs.role) /\ el.attribs.role[1] \in stripRolesOf(o)
    THEN [res |-> TRUE, li |-> li]
    ELSE LET c == IF truthy(el.attribs.class)
                  THEN matchesAny(el.attribs.class[1], stripClassesOf(o), li)
                  ELSE [res |-> FALSE, li |-> li]
         IN  IF c.res THEN c
             ELSE IF truthy(el.attribs.id)
                  THEN matchesAny(el.attribs.id[1], stripIdsOf(o), c.li)
                  ELSE [res |-> FALSE, li |-> c.li]

\* A caller's pattern whose test method throws: a RegExp subclass that
\* overrides test.
ThrowingRe ==
    [kind |-> "throwing", alts |-> <<>>, startB |-> FALSE, endB |-> FALSE,
     icase |-> FALSE, global |-> FALSE]

\* matchesAny: whether the loop reaches a pattern whose test throws, that is,
\* whether no pattern before it matches.
throwsIn(value, patterns, li) ==
    \E k \in 1..Len(patterns) :
        /\ patterns[k].kind = "throwing"
        /\ \A j \in 1..(k - 1) : patterns[j].kind # "throwing"
        /\ ~matchesAny(value, SubSeq(patterns, 1, k - 1), li).res

\* shouldStrip: whether one of its pattern tests throws.
patternThrows(el, o, li) ==
    IF el.name \in stripTagsOf(o) THEN FALSE
    ELSE IF truthyRole(el.attribs.role) /\ el.attribs.role[1] \in stripRolesOf(o) THEN FALSE
    ELSE IF truthy(el.attribs.class) /\ throwsIn(el.attribs.class[1], stripClassesOf(o), li)
    THEN TRUE
    ELSE LET c == IF truthy(el.attribs.class)
                  THEN matchesAny(el.attribs.class[1], stripClassesOf(o), li)
                  ELSE [res |-> FALSE, li |-> li]
         IN  /\ ~c.res
             /\ truthy(el.attribs.id)
             /\ throwsIn(el.attribs.id[1], stripIdsOf(o), c.li)

\* node.children.indexOf(child): 0-based, or -1.
indexOf(ch, child) ==
    IF \E k \in 1..Len(ch) : ch[k] = child
    THEN (CHOOSE k \in 1..Len(ch) : ch[k] = child /\ \A j \in 1..(k - 1) : ch[j] # child) - 1
    ELSE 0 - 1

\* A variant that stops after the first removal.
spliceAll_FirstOnly(ch, toRemove) ==
    IF toRemove = <<>> THEN ch ELSE SelectSeq(ch, LAMBDA x : x # Head(toRemove))

\* The second loop of pruneTree on one children list.
RECURSIVE spliceAll(_, _)
spliceAll(ch, toRemove) ==
    IF toRemove = <<>> THEN ch
    ELSE LET idx == indexOf(ch, Head(toRemove))
         IN  IF idx # 0 - 1
             THEN spliceAll(SubSeq(ch, 1, idx) \o SubSeq(ch, idx + 2, Len(ch)),
                            Tail(toRemove))
             ELSE spliceAll(ch, Tail(toRemove))

\* The nodes reachable from the Document through the children lists.
RECURSIVE reachable(_, _)
reachable(ch, node) ==
    {node} \cup UNION { reachable(ch, ch[node][k]) : k \in 1..Len(ch[node]) }

\* The options of the current run: the baseline run passes none.
opts == IF run = "baseline" THEN NoOptions ELSE options

Frame(node) == [node |-> node, idx |-> 0, toRemove |-> <<>>]
top == stack[Len(stack)]
scanning == epc = "prune" /\ top.idx < Len(children[top.node])
current == children[top.node][top.idx + 1]
advance(f) == [f EXCEPT !.idx = f.idx + 1]

DedupOff ==
    /\ markdown = <<>>
    /\ minLengthArg = <<>>
    /\ blocks = <<>>
    /\ i = 0
    /\ seen = {}
    /\ kept = <<>>
    /\ keptIdx = <<>>
    /\ pc = "off"
    /\ results = <<>>

InitExtract ==
    /\ DedupOff
    /\ WalkOff
    /\ ConvertOff
    /\ tree \in Trees
    /\ children = parsedChildren(tree)
    /\ parentOf = parsedParents(tree)
    /\ options \in OptionsPalette
    /\ stack = <<>>
    /\ lastIndex = 0
    /\ epc = "idle"
    /\ run = "baseline"
    /\ remaining = [r \in {} |-> {}]

\* extractContent(document, options): the call of pruneTree on the Document.
ExtractContent ==
    /\ epc = "idle"
    /\ stack' = <<Frame(0)>>
    /\ epc' = "prune"
    /\ UNCHANGED <<tree, children, parentOf, options, lastIndex, run, remaining>>
    /\ UNCHANGED <<dedupVars, walkVars, convertVars>>

\* if (!isTag(child)) continue;
SkipNonTag ==
    /\ scanning
    /\ ~isTag(tree.kind[current])
    /\ stack' = [stack EXCEPT ![Len(stack)] = advance(top)]
    /\ UNCHANGED <<tree, children, parentOf, options, lastIndex, epc, run, remaining>>
    /\ UNCHANGED <<dedupVars, walkVars, convertVars>>

\* if (shouldStrip(el, ...)) { toRemove.push(child); continue; }
CollectMatch ==
    /\ scanning
    /\ isTag(tree.kind[current])
    /\ ~patternThrows(tree.kind[current], opts, lastIndex)
    /\ LET v == shouldStrip(tree.kind[current], opts, lastIndex)
       IN  /\ v.res
           /\ lastIndex' = v.li
           /\ stack' = [stack EXCEPT ![Len(stack)] =
                           [advance(top) EXCEPT !.toRemove = Append(top.toRemove, current)]]
    /\ UNCHANGED <<tree, children, parentOf, options, epc, run, remaining>>
    /\ UNCHANGED <<dedupVars, walkVars, convertVars>>

\* pruneTree(el, ...) on a child that is not stripped.
Recurse ==
    /\ scanning
    /\ isTag(tree.kind[current])
    /\ ~patternThrows(tree.kind[current], opts, lastIndex)
    /\ LET v == shouldStrip(tree.kind[current], opts, lastIndex)
       IN  /\ ~v.res
           /\ lastIndex' = v.li
           /\ stack' = Append([stack EXCEPT ![Len(stack)] = advance(top)], Frame(current))
    /\ UNCHANGED <<tree, children, parentOf, options, epc, run, remaining>>
    /\ UNCHANGED <<dedupVars, walkVars, convertVars>>

\* The scan of top.node is complete: splice out what was collected, clear the
\* parent references, and return to the caller.
SpliceAndReturn ==
    /\ epc = "prune"
    /\ top.idx >= Len(children[top.node])
    /\ LET ch == spliceAll(children[top.node], top.toRemove)
           gone == { top.toRemove[k] : k \in 1..Len(top.toRemove) }
           newChildren == [children EXCEPT ![top.node] = ch]
       IN  /\ children' = newChildren
           /\ parentOf' = [k \in DOMAIN parentOf |->
                              IF k \in gone /\ indexOf(children[top.node], k) # 0 - 1
                              THEN <<>> ELSE parentOf[k]]
           /\ stack' = SubSeq(stack, 1, Len(stack) - 1)
           /\ IF Len(stack) = 1
              THEN /\ epc' = "done"
                   /\ remaining' = (run :> reachable(newChildren, 0)) @@ remaining
              ELSE UNCHANGED <<epc, remaining>>
    /\ UNCHANGED <<tree, options, lastIndex, run>>
    /\ UNCHANGED <<dedupVars, walkVars, convertVars>>

\* The caller parses the same HTML again and extracts with its options.
ExtractConfigured ==
    /\ epc = "done"
    /\ run = "baseline"
    /\ run' = "configured"
    /\ children' = parsedChildren(tree)
    /\ parentOf' = parsedParents(tree)
    /\ epc' = "idle"
    /\ UNCHANGED <<tree, options, stack, lastIndex, remaining>>
    /\ UNCHANGED <<dedupVars, walkVars, convertVars>>

NextExtract ==
    \/ ExtractContent
    \/ SkipNonTag
    \/ CollectMatch
    \/ Recurse
    \/ SpliceAndReturn
    \/ ExtractConfigured

SpecExtract == InitExtract /\ [][NextExtract]_vars

(***************************************************************************)
(* Vocabulary of the extractor's claims: what it means for an element to   *)
(* match a strip predicate, stated on the pattern alone (no lastIndex).    *)
(***************************************************************************)
Elements == { k \in 1..tree.n : isTag(tree.kind[k]) }
KeptTags(o) ==
    (IF o.keepHeader THEN {"header"} ELSE {})
        \cup (IF o.keepFooter THEN {"footer"} ELSE {})
        \cup (IF o.keepNav THEN {"nav"} ELSE {})
PatternMatches(pat, value) ==
    IF pat.kind = "string" THEN includes(value, pat.text)
    ELSE \E p \in 1..Len(value) : \E a \in 1..Len(pat.alts) :
             matchAt(pat, value, p, pat.alts[a])
AnyPatternMatches(pats, attr) ==
    attr # <<>> /\ \E k \in 1..Len(pats) : PatternMatches(pats[k], attr[1])
RoleIn(S, attr) == attr # <<>> /\ attr[1] \in S

\* The element matches a predicate other than the tag-name one.
MatchesBeyondTag(k, o) ==
    LET a == tree.kind[k].attribs
    IN  \/ RoleIn(DEFAULT_STRIP_ROLES \cup o.stripRoles, a.role)
        \/ AnyPatternMatches(DEFAULT_STRIP_CLASSES \o o.stripClasses, a.class)
        \/ AnyPatternMatches(DEFAULT_STRIP_IDS \o o.stripIds, a.id)
\* The element matches a configured strip predicate.
MatchesConfigured(k, o) ==
    \/ tree.kind[k].name \in (DEFAULT_STRIP_TAGS \cup o.stripTags) \ KeptTags(o)
    \/ MatchesBeyondTag(k, o)
\* The element matches a default predicate that no keep flag of o disables.
MatchesDefault(k, o) ==
    LET a == tree.kind[k].attribs
    IN  \/ tree.kind[k].name \in DEFAULT_STRIP_TAGS \ KeptTags(o)
        \/ RoleIn(DEFAULT_STRIP_ROLES, a.role)
        \/ AnyPatternMatches(DEFAULT_STRIP_CLASSES, a.class)
        \/ AnyPatternMatches(DEFAULT_STRIP_IDS, a.id)

Returned(r) == epc = "done" /\ run = r

\* C6: when extractContent returns, no element left in the document matches a
\* configured strip predicate.
C6_NoMatchRemains ==
    epc = "done" =>
        \A k \in Elements : k \in remaining[run] => ~MatchesConfigured(k, opts)

\* C7: without keep flags, whatever the call without options removes the call
\* with options removes too; with keep flags, every element matching a default
\* predicate other than the tag name of a kept tag is still removed.
C7_PatternsAdditive ==
    Returned("configured") =>
        /\ KeptTags(options) = {} => remaining["configured"] \subseteq remaining["baseline"]
        /\ \A k \in Elements : k \in remaining["configured"] => ~MatchesDefault(k, options)

C7_Witness ==
    /\ Returned("configured")
    /\ KeptTags(options) = {}
    /\ options # NoOptions
    /\ \E k \in Elements : k \notin remaining["baseline"]
    /\ \E k \in Elements : k \in remaining["baseline"] /\ k \notin remaining["configured"]

MaxWalkNodes == 2
MaxUserRules == 2
MaxSiblings == 3

\* What a replacement returns: a string, null or undefined.
Undefined == [kind |-> "undefined", text |-> <<>>]
Null == [kind |-> "null", text |-> <<>>]
Str(s) == [kind |-> "string", text |-> s]

\* Rule['filter']: a tag name, an array of tag names, or a predicate.  The one
\* predicate of the inputs is () => true.
NameFilter(name) == [kind |-> "string", names |-> {name}]
ArrayFilter(names) == [kind |-> "array", names |-> names]
AnyElement == [kind |-> "function", names |-> {}]

\* A rule; replacement names the function body, priority is <<>> when absent.
Rule(id, filter, replacement, priority) ==
    [id |-> id, filter |-> filter, replacement |-> replacement, priority |-> priority]

\* createRule(filter, replacement, priority = 100)
createRule(id, filter, replacement, priorityArg) ==
    Rule(id, filter, replacement, IF priorityArg = <<>> THEN <<100>> ELSE priorityArg)

\* The rules a caller can pass in options.rules.
UserRulePalette ==
    { Rule("low", NameFilter("em"), "A", <<0>>),                \* () => 'A'
      Rule("high", NameFilter("em"), "B", <<10>>),              \* () => 'B'
      Rule("drop", ArrayFilter({"em", "div"}), "null", <<>>),   \* () => null
      createRule("pass", AnyElement, "undefined", <<>>),        \* () => undefined
      Rule("skip", ArrayFilter({"em", "code"}), "undefined", <<>>),
      Rule("wrap", ArrayFilter({"pre", "div"}), "wrap", <<5>>) }
                              \* ({node, convertChildren}) => '[' + convertChildren(node) + ']'

UserRuleLists ==
    { rs \in SeqsUpTo(UserRulePalette, MaxUserRules) :
        \A a, b \in 1..Len(rs) : a # b => rs[a] # rs[b] }

\* getDefaultRules: [...blockRules, ...inlineRules, ...listRules]; the table
\* rules are left out, no input holds an element they match.
getDefaultRules ==
    << Rule("heading", ArrayFilter({"h1", "h2", "h3", "h4", "h5", "h6"}), "heading", <<0>>),
       Rule("p", NameFilter("p"), "p", <<0>>),
       Rule("blockquote", NameFilter("blockquote"), "blockquote", <<0>>),
       Rule("pre", NameFilter("pre"), "pre", <<0>>),
       Rule("hr", NameFilter("hr"), "hr", <<0>>),
       Rule("br", NameFilter("br"), "br", <<0>>),
       Rule("script", ArrayFilter({"script", "style", "noscript", "template"}), "null", <<0>>),
       Rule("head", ArrayFilter({"head", "title", "meta", "link", "base"}), "null", <<0>>),
       Rule("strong", ArrayFilter({"strong", "b"}), "strong", <<0>>),
       Rule("em", ArrayFilter({"em", "i"}), "em", <<0>>),
       Rule("del", ArrayFilter({"del", "s", "strike"}), "del", <<0>>),
       Rule("code", NameFilter("code"), "code", <<0>>),
       Rule("a", NameFilter("a"), "a", <<0>>),
       Rule("img", NameFilter("img"), "img", <<0>>),
       Rule("abbr", ArrayFilter({"abbr", "mark"}), "abbr", <<0>>),
       Rule("sub", NameFilter("sub"), "sub", <<0>>),
       Rule("sup", NameFilter("sup"), "sup", <<0>>),
       Rule("list", ArrayFilter({"ul", "ol"}), "list", <<0>>),
       Rule("li", NameFilter("li"), "li", <<0>>) >>

\* The nodes of the walker's inputs; attribs maps the names of the attributes
\* an element carries to their values.
WText(data) == [type |-> "text", name |-> "", data |-> data, attribs |-> <<>>]
WElement(name) == [type |-> "tag", name |-> name, data |-> <<>>, attribs |-> <<>>]
WElementWith(name, attribs) == [type |-> "tag", name |-> name, data |-> <<>>, attribs |-> attribs]
WalkKinds ==
    { WText(<<"x">>), WText(<<SP>>),
      WElement("em"), WElement("div"), WElement("pre"), WElement("code") }
isText(node) == node.type = "text"

WalkTrees ==
    UNION { { t \in [n : {n}, par : [1..n -> 0..(n - 1)], kind : [1..n -> WalkKinds]] :
                WellFormed(t) } : n \in 0..MaxWalkNodes }

\* node.children
kids(node) == parsedChildren(wtree)[node]

\* fragments.join('')
RECURSIVE join(_)
join(fragments) ==
    IF fragments = <<>> THEN <<>> ELSE Head(fragments) \o join(Tail(fragments))

\* A variant of the comparator that sorts by ascending priority.
compareRules_Ascending(a, b) ==
    (IF a.priority = <<>> THEN 0 ELSE a.priority[1])
        - (IF b.priority = <<>> THEN 0 ELSE b.priority[1])

\* priority ?? 0
priorityOf(rule) == IF rule.priority = <<>> THEN 0 ELSE rule.priority[1]

\* (a, b) => (b.priority ?? 0) - (a.priority ?? 0)
compareRules(a, b) == priorityOf(b) - priorityOf(a)

\* A variant that builds the list on every call.
cachedAfterCall_Rebuild(c) ==
    <<[rules |-> getDefaultRules, built |-> (IF c = <<>> THEN 0 ELSE c[1].built) + 1,
       calls |-> (IF c = <<>> THEN 0 ELSE c[1].calls) + 1]>>

\* getDefaultRules(): cached ??= [...]; return cached.  built and calls are
\* history: how often the list was built and how often it was asked for.
cachedAfterCall(c) ==
    IF c = <<>> THEN <<[rules |-> getDefaultRules, built |-> 1, calls |-> 1]>>
    ELSE <<[c[1] EXCEPT !.calls = @ + 1]>>

\* A variant of the merge that puts the built-in rules first.
mergeRules_DefaultsFirst(rules, defaults) == defaults \o rules

\* [...opts.rules, ...getDefaultRules()]
mergeRules(rules, defaults) == rules \o defaults

\* Array.prototype.sort with this comparator: a stable sort.
RECURSIVE insertSorted(_, _)
insertSorted(sorted, rule) ==
    IF sorted = <<>> THEN <<rule>>
    ELSE IF compareRules(Head(sorted), rule) <= 0
         THEN <<Head(sorted)>> \o insertSorted(Tail(sorted), rule)
         ELSE <<rule>> \o sorted
RECURSIVE sortInto(_, _)
sortInto(sorted, rules) ==
    IF rules = <<>> THEN sorted
    ELSE sortInto(insertSorted(sorted, Head(rules)), Tail(rules))
sortRules(rules) == sortInto(<<>>, rules)

matchesFilter(filter, element) ==
    IF filter.kind = "string" THEN \E name \in filter.names : element.name = name
    ELSE IF filter.kind = "array" THEN element.name \in filter.names
    ELSE TRUE

\* The walk state that convert starts from.
InitialState == [listDepth |-> 0, insidePre |-> FALSE, insideTable |-> FALSE]

deriveState(element, state) ==
    LET isPre == element.name = "pre"
        isTable == element.name = "table"
        isList == element.name = "ul" \/ element.name = "ol"
    IN  IF ~isPre /\ ~isTable /\ ~isList THEN state
        ELSE [listDepth |-> IF isList THEN state.listDepth + 1 ELSE state.listDepth,
              insidePre |-> state.insidePre \/ isPre,
              insideTable |-> state.insideTable \/ isTable]

processText(node, state) ==
    IF state.insidePre THEN node.data
    ELSE IF /\ state.insideTable
            /\ node.data # <<>>
            /\ \A k \in 1..Len(node.data) : IsSpace(node.data[k])
         THEN <<>>
         ELSE collapseWs(node.data)

\* needsSeparator's backward scan over parent.children, from index j down.
RECURSIVE previousIsTag(_, _)
previousIsTag(siblings, j) ==
    IF j < 0 THEN FALSE
    ELSE IF isText(wtree.kind[siblings[j + 1]]) THEN FALSE
    ELSE IF isTag(wtree.kind[siblings[j + 1]]) THEN TRUE
    ELSE previousIsTag(siblings, j - 1)

needsSeparator(fragments, parent, currentIndex) ==
    IF fragments = <<>> THEN FALSE
    ELSE LET last == fragments[Len(fragments)]
         IN  IF last = <<>> \/ IsSpace(last[Len(last)]) THEN FALSE
             ELSE previousIsTag(kids(parent), currentIndex - 1)

\* rules/util.ts
RECURSIVE getTextContent(_)
getTextContent(node) ==
    IF node # 0 /\ isText(wtree.kind[node]) THEN wtree.kind[node].data
    ELSE LET ch == kids(node)
         IN  join([k \in 1..Len(ch) |-> getTextContent(ch[k])])

\* s.startsWith(prefix)
startsWith(s, prefix) ==
    Len(prefix) <= Len(s) /\ \A k \in 1..Len(prefix) : s[k] = prefix[k]

\* ch.repeat(n)
RECURSIVE repeat(_, _)
repeat(s, n) == IF n <= 0 THEN <<>> ELSE s \o repeat(s, n - 1)

\* s.split(ch) for a one-character separator: the pieces, at least one.
RECURSIVE splitOn(_, _, _)
splitOn(s, ch, piece) ==
    IF s = <<>> THEN <<piece>>
    ELSE IF Head(s) = ch THEN <<piece>> \o splitOn(Tail(s), ch, <<>>)
    ELSE splitOn(Tail(s), ch, Append(piece, Head(s)))
split(s, ch) == splitOn(s, ch, <<>>)

\* pieces.join(sep)
RECURSIVE joinWith(_, _)
joinWith(pieces, sep) ==
    IF pieces = <<>> THEN <<>>
    ELSE IF Len(pieces) = 1 THEN pieces[1]
    ELSE pieces[1] \o sep \o joinWith(Tail(pieces), sep)

\* String(n) for an integer n.
Digits == <<"0", "1", "2", "3", "4", "5", "6", "7", "8", "9">>
RECURSIVE natToString(_)
natToString(n) ==
    IF n < 10 THEN <<Digits[n + 1]>> ELSE natToString(n \div 10) \o <<Digits[(n % 10) + 1]>>
toString(n) == IF n < 0 THEN <<"-">> \o natToString(0 - n) ELSE natToString(n)

\* Number.parseInt(s, 10): <<n>>, or <<>> for NaN.
IsDigit(c) == \E d \in 1..10 : Digits[d] = c
digitValue(c) == (CHOOSE d \in 1..10 : Digits[d] = c) - 1
RECURSIVE leadingDigits(_, _)
leadingDigits(s, acc) ==
    IF s = <<>> \/ ~IsDigit(Head(s)) THEN acc
    ELSE leadingDigits(Tail(s), 10 * acc + digitValue(Head(s)))
parseInt(s) ==
    LET t == trimStart(s)
        negative == t # <<>> /\ Head(t) = "-"
        body == IF t # <<>> /\ Head(t) \in {"-", "+"} THEN Tail(t) ELSE t
    IN  IF body = <<>> \/ ~IsDigit(Head(body)) THEN <<>>
        ELSE <<IF negative THEN 0 - leadingDigits(body, 0) ELSE leadingDigits(body, 0)>>

\* The position of the n-th occurrence of ch in s at or after k, 0 if none.
RECURSIVE indexOfNth(_, _, _, _)
indexOfNth(s, ch, n, k) ==
    IF k > Len(s) THEN 0
    ELSE IF s[k] = ch THEN (IF n = 1 THEN k ELSE indexOfNth(s, ch, n - 1, k + 1))
    ELSE indexOfNth(s, ch, n, k + 1)
RECURSIVE lastIndexOfChar(_, _, _)
lastIndexOfChar(s, ch, k) ==
    IF k = 0 THEN 0 ELSE IF s[k] = ch THEN k ELSE lastIndexOfChar(s, ch, k - 1)
upTo(s, ch) == LET k == indexOfNth(s, ch, 1, 1) IN IF k = 0 THEN s ELSE SubSeq(s, 1, k - 1)

\* The scheme test of the URL parser: /^[A-Za-z][A-Za-z0-9+.-]*:/
IsAlpha(c) == c \in DOMAIN LowerOf \/ c \in { LowerOf[x] : x \in DOMAIN LowerOf }
hasScheme(url) ==
    LET k == indexOfNth(url, ":", 1, 1)
    IN  /\ k > 1
        /\ IsAlpha(url[1])
        /\ \A h \in 2..(k - 1) : IsAlpha(url[h]) \/ IsDigit(url[h]) \/ url[h] \in {"+", ".", "-"}

\* new URL(url, base).href, for a base scheme://host/path without query or
\* fragment, and for urls that are already in serialized form (no spaces, no
\* dot segments, lower-case scheme and host).
resolveUrl(url, base) ==
    LET scheme == upTo(base, ":")
        thirdSlash == indexOfNth(base, "/", 3, 1)
        origin == IF thirdSlash = 0 THEN base ELSE SubSeq(base, 1, thirdSlash - 1)
        path == IF thirdSlash = 0 THEN <<"/">> ELSE SubSeq(base, thirdSlash, Len(base))
        directory == SubSeq(path, 1, lastIndexOfChar(path, "/", Len(path)))
    IN  IF hasScheme(url) THEN url
        ELSE IF startsWith(url, <<"/", "/">>) THEN scheme \o <<":">> \o url
        ELSE IF startsWith(url, <<"/">>) THEN origin \o url
        ELSE IF url = <<>> \/ Head(url) \in {"?", "#"} THEN origin \o path \o url
        ELSE origin \o directory \o url

\* The backquote character, which a string of this notation cannot hold.
BQ == "backquote"

\* DEFAULTS of convert: the options the rules read.  extract, rules and
\* deduplicate are the inputs of their own stages.
DEFAULTS ==
    [baseUrl |-> <<>>, headingStyle |-> "atx", bulletChar |-> <<"-">>,
     codeBlockStyle |-> "fenced", fenceChar |-> <<BQ>>,
     strongDelimiter |-> <<"*", "*">>, emDelimiter |-> <<"*">>, linkStyle |-> "inlined"]

\* node.attribs[name] || ''
attr(node, name) ==
    IF name \in DOMAIN wtree.kind[node].attribs THEN wtree.kind[node].attribs[name] ELSE <<>>

\* codeChild.attribs.class?.match(/language-(\S+)/)?.[1] ?? ''
RECURSIVE nonSpacePrefix(_)
nonSpacePrefix(s) ==
    IF s = <<>> \/ IsSpace(Head(s)) THEN <<>> ELSE <<Head(s)>> \o nonSpacePrefix(Tail(s))
RECURSIVE languageFrom(_)
languageFrom(class) ==
    LET marker == <<"l", "a", "n", "g", "u", "a", "g", "e", "-">>
    IN  IF Len(class) <= Len(marker) THEN <<>>
        ELSE IF /\ startsWith(class, marker)
                /\ nonSpacePrefix(SubSeq(class, Len(marker) + 1, Len(class))) # <<>>
             THEN nonSpacePrefix(SubSeq(class, Len(marker) + 1, Len(class)))
             ELSE languageFrom(Tail(class))

\* The built-in <pre> rule.
preReplacement(node) ==
    LET ch == kids(node)
        codes == { k \in 1..Len(ch) : isTag(wtree.kind[ch[k]]) /\ wtree.kind[ch[k]].name = "code" }
        lang == IF codes = {} THEN <<>>
                ELSE languageFrom(attr(ch[CHOOSE k \in codes : \A h \in codes : k <= h], "class"))
        fence == repeat(convertOptions.fenceChar, 3)
    IN  Str(<<NL, NL>> \o fence \o lang \o <<NL>> \o getTextContent(node) \o <<NL>> \o fence
                \o <<NL, NL>>)

\* The built-in <code> rule.
codeReplacement(node, state) ==
    IF state.insidePre THEN Undefined
    ELSE LET ch == kids(node)
             text == join([k \in 1..Len(ch) |->
                              IF isText(wtree.kind[ch[k]]) THEN wtree.kind[ch[k]].data ELSE <<>>])
             delimiter == IF includes(text, <<BQ>>) THEN <<BQ, BQ>> ELSE <<BQ>>
         IN  IF text = <<>> THEN Null
             ELSE Str(delimiter
                        \o (IF text[1] = BQ \/ text[Len(text)] = BQ
                            THEN <<SP>> \o text \o <<SP>> ELSE text)
                        \o delimiter)

\* The built-in <img> rule.
imgReplacement(node) ==
    LET src == attr(node, "src")
        resolvedSrc ==
            IF /\ convertOptions.baseUrl # <<>>
               /\ src # <<>>
               /\ ~startsWith(src, <<"h", "t", "t", "p">>)
               /\ ~startsWith(src, <<"d", "a", "t", "a", ":">>)
            THEN resolveUrl(src, convertOptions.baseUrl) ELSE src
    IN  IF attr(node, "title") # <<>>
        THEN Str(<<"!", "[">> \o attr(node, "alt") \o <<"]", "(">> \o resolvedSrc
                    \o <<SP, "\"">> \o attr(node, "title") \o <<"\"", ")">>)
        ELSE Str(<<"!", "[">> \o attr(node, "alt") \o <<"]", "(">> \o resolvedSrc \o <<")">>)

\* The built-in rules that convert the children first; content is what
\* convertChildren(node) returned.

\* A variant of the <strong> rule without the test for empty content.
strongReplacement_NoCheck(content) ==
    Str(convertOptions.strongDelimiter \o trim(content) \o convertOptions.strongDelimiter)

HeadingLevel == [h1 |-> 1, h2 |-> 2, h3 |-> 3, h4 |-> 4, h5 |-> 5, h6 |-> 6]

headingReplacement(node, content) ==
    LET level == HeadingLevel[wtree.kind[node].name]
        text == trim(content)
    IN  IF text = <<>> THEN Null
        ELSE IF convertOptions.headingStyle = "setext" /\ level <= 2
             THEN Str(<<NL, NL>> \o text \o <<NL>>
                        \o repeat(IF level = 1 THEN <<"=">> ELSE <<"-">>, Len(text)) \o <<NL, NL>>)
             ELSE Str(<<NL, NL>> \o repeat(<<"#">>, level) \o <<SP>> \o text \o <<NL, NL>>)

pReplacement(content) ==
    IF trim(content) = <<>> THEN Null ELSE Str(<<NL, NL>> \o trim(content) \o <<NL, NL>>)

blockquoteReplacement(content) ==
    LET lines == split(trim(content), NL)
        quoted == joinWith([k \in 1..Len(lines) |-> <<">", SP>> \o lines[k]], <<NL>>)
    IN  IF trim(content) = <<>> THEN Null ELSE Str(<<NL, NL>> \o quoted \o <<NL, NL>>)

strongReplacement(content) ==
    IF trim(content) = <<>> THEN Null
    ELSE Str(convertOptions.strongDelimiter \o trim(content) \o convertOptions.strongDelimiter)

emReplacement(content) ==
    IF trim(content) = <<>> THEN Null
    ELSE Str(convertOptions.emDelimiter \o trim(content) \o convertOptions.emDelimiter)

delReplacement(content) ==
    IF trim(content) = <<>> THEN Null ELSE Str(<<"~", "~">> \o trim(content) \o <<"~", "~">>)

aReplacement(node, content) ==
    LET href == attr(node, "href")
        resolvedHref ==
            IF /\ convertOptions.baseUrl # <<>>
               /\ href # <<>>
               /\ ~startsWith(href, <<"h", "t", "t", "p">>)
               /\ ~startsWith(href, <<"#">>)
            THEN resolveUrl(href, convertOptions.baseUrl) ELSE href
    IN  IF trim(content) = <<>> THEN Null
        ELSE IF attr(node, "title") # <<>>
             THEN Str(<<"[">> \o trim(content) \o <<"]", "(">> \o resolvedHref
                        \o <<SP, "\"">> \o attr(node, "title") \o <<"\"", ")">>)
             ELSE Str(<<"[">> \o trim(content) \o <<"]", "(">> \o resolvedHref \o <<")">>)

subReplacement(content) ==
    IF trim(content) = <<>> THEN Null ELSE Str(<<"~">> \o trim(content) \o <<"~">>)

supReplacement(content) ==
    IF trim(content) = <<>> THEN Null ELSE Str(<<"^">> \o trim(content) \o <<"^">>)

\* The built-in <ul>/<ol> rule.
listReplacement(state, content) ==
    IF state.listDepth = 0 THEN Str(<<NL, NL>> \o trim(content) \o <<NL, NL>>)
    ELSE Str(<<NL>> \o trimEnd(content))

\* The built-in <li> rule.
liReplacement(node, parent, siblingIndex, state, content) ==
    LET text == trim(content)
        indent == repeat(<<SP, SP>>, state.listDepth - 1)
        ordered == parent # 0 /\ isTag(wtree.kind[parent]) /\ wtree.kind[parent].name = "ol"
        start == parseInt(IF attr(parent, "start") = <<>> THEN <<"1">> ELSE attr(parent, "start"))
        liIndex == Cardinality({ k \in 1..siblingIndex :
                                   /\ isTag(wtree.kind[kids(parent)[k]])
                                   /\ wtree.kind[kids(parent)[k]].name = "li" })
        bullet == IF ordered
                  THEN (IF start = <<>> THEN <<"N", "a", "N">> ELSE toString(start[1] + liIndex))
                           \o <<".">>
                  ELSE convertOptions.bulletChar
        lines == split(text, NL)
        first == indent \o bullet \o <<SP>> \o lines[1]
        continuationIndent == indent \o repeat(<<SP>>, Len(bullet) + 1)
        rest == joinWith([k \in 1..(Len(lines) - 1) |->
                             IF trim(lines[k + 1]) # <<>>
                             THEN continuationIndent \o lines[k + 1] ELSE <<>>], <<NL>>)
    IN  IF text = <<>> THEN Null
        ELSE IF Len(lines) = 1 THEN Str(first \o <<NL>>)
        ELSE Str(first \o <<NL>> \o rest \o <<NL>>)

\* The replacements that start by calling convertChildren(node).
callsConvertChildren(rule) ==
    rule.replacement \in {"wrap", "heading", "p", "blockquote", "strong", "em", "del", "a",
                          "abbr", "sub", "sup", "list", "li"}

\* rule.replacement(context) of a rule that does not call convertChildren.
replacement(rule, node, state) ==
    CASE rule.replacement = "A" -> Str(<<"A">>)
      [] rule.replacement = "B" -> Str(<<"B">>)
      [] rule.replacement = "null" -> Null
      [] rule.replacement = "undefined" -> Undefined
      [] rule.replacement = "pre" -> preReplacement(node)
      [] rule.replacement = "hr" -> Str(<<NL, NL, "-", "-", "-", NL, NL>>)
      [] rule.replacement = "br" -> Str(<<SP, SP, NL>>)
      [] rule.replacement = "code" -> codeReplacement(node, state)
      [] rule.replacement = "img" -> imgReplacement(node)
      [] rule.replacement = "inner" -> Undefined

\* rule.replacement(context) from the return of convertChildren(node) on.
replacementWith(rule, node, parent, siblingIndex, state, content) ==
    CASE rule.replacement = "wrap" -> Str(<<"[">> \o content \o <<"]">>)
      [] rule.replacement = "heading" -> headingReplacement(node, content)
      [] rule.replacement = "p" -> pReplacement(content)
      [] rule.replacement = "blockquote" -> blockquoteReplacement(content)
      [] rule.replacement = "strong" -> strongReplacement(content)
      [] rule.replacement = "em" -> emReplacement(content)
      [] rule.replacement = "del" -> delReplacement(content)
      [] rule.replacement = "a" -> aReplacement(node, content)
      [] rule.replacement = "abbr" -> Str(content)
      [] rule.replacement = "sub" -> subReplacement(content)
      [] rule.replacement = "sup" -> supReplacement(content)
      [] rule.replacement = "list" -> listReplacement(state, content)
      [] rule.replacement = "li" -> liReplacement(node, parent, siblingIndex, state, content)

\* A variant of applyRules' test that returns truthy results only.
returnsResult_Truthy(result) == result.kind = "string" /\ result.text # <<>>

\* applyRules: if (result !== undefined) return result;
returnsResult(result) == result # Undefined

\* A walk activation: its node, loop index i, fragments and state; how it was
\* entered ("document", "rule" through convertChildren, "fallback" from the end
\* of applyRules) and by which rule; the position in state.rules from which
\* applyRules continues for the current child.
WFrame(node, st, mode, rule) ==
    [node |-> node, idx |-> 0, fragments |-> <<>>, st |-> st,
     mode |-> mode, rule |-> rule, cursor |-> 1]
wtop == wstack[Len(wstack)]
wcaller == wstack[Len(wstack) - 1]
walking == wpc = "walk" /\ wtop.idx < Len(kids(wtop.node))
returning == wpc = "walk" /\ wtop.idx = Len(kids(wtop.node))
wchild == kids(wtop.node)[wtop.idx + 1]

\* A rule whose filter function throws, or whose replacement throws.
filterThrows(rule) == rule.filter.kind = "throwing"
replacementThrows(rule) == rule.replacement = "throw"
ruleThrows(rule) == filterThrows(rule) \/ replacementThrows(rule)

\* applyRules' loop: the first rule at or after position k whose filter matches
\* or throws.
RECURSIVE nextMatching(_, _, _)
nextMatching(rules, element, k) ==
    IF k > Len(rules) THEN k
    ELSE IF filterThrows(rules[k]) THEN k
    ELSE IF matchesFilter(rules[k].filter, element) THEN k
    ELSE nextMatching(rules, element, k + 1)
wrule == nextMatching(allRules, wtree.kind[wchild], wtop.cursor)

\* walk: what it does with the value applyRules returned for child i.
pushResult(f, result) ==
    LET frags ==
            IF result = Null THEN f.fragments
            ELSE IF /\ Len(result.text) > 0
                    /\ ~f.st.insidePre
                    /\ ~f.st.insideTable
                    /\ needsSeparator(f.fragments, f.node, f.idx)
                 THEN f.fragments \o << <<SP>>, result.text >>
                 ELSE Append(f.fragments, result.text)
    IN  [f EXCEPT !.fragments = frags, !.idx = f.idx + 1, !.cursor = 1]

\* The frame f of the parent after rule k returned result for child: either
\* applyRules returns it to walk, or its loop goes on with the next rule.
afterRule(f, k, result) ==
    IF returnsResult(result) THEN pushResult(f, result) ELSE [f EXCEPT !.cursor = k + 1]

\* History: the output accumulated in f before the step to g, whether the step
\* pushed a separator, and the state of f's walk.
logged(f, g) ==
    <<[before |-> join(f.fragments),
       space |-> Len(g.fragments) = Len(f.fragments) + 2,
       st |-> f.st]>>

\* History: what the step from frame f to frame g pushed for the child.
pushedBy(f, g) ==
    IF Len(g.fragments) > Len(f.fragments) THEN <<g.fragments[Len(g.fragments)]>> ELSE <<>>

InitWalk ==
    /\ DedupOff
    /\ ExtractOff
    /\ ConvertOff
    /\ wtree \in WalkTrees
    /\ userRules \in UserRuleLists
    /\ allRules = <<>>
    /\ wstack = <<>>
    /\ wpc = "idle"
    /\ output = <<>>
    /\ evals = [k \in 1..wtree.n |-> <<>>]
    /\ applied = {}
    /\ emitted = [k \in 1..wtree.n |-> <<>>]
    /\ fellBack = [k \in 1..wtree.n |-> <<>>]
    /\ pushLog = [k \in 1..wtree.n |-> <<>>]
    /\ convertOptions = DEFAULTS

\* convert: merge and sort the rules, then call walk(document, ...).
Convert ==
    /\ wpc = "idle"
    /\ cached' = cachedAfterCall(cached)
    /\ allRules' = sortRules(mergeRules(userRules, cached'[1].rules))
    /\ wstack' = <<WFrame(0, InitialState, "document", 0)>>
    /\ wpc' = "walk"
    /\ UNCHANGED <<wtree, userRules, convertOptions, output, evals, applied, emitted, fellBack, pushLog>>
    /\ UNCHANGED <<cpc, deduplicate, tokenCounter, rendered, counterLog, convertResult, thrown, http>>
    /\ UNCHANGED <<dedupVars, extractVars>>

\* walk: a text child.
WalkText ==
    /\ walking
    /\ isText(wtree.kind[wchild])
    /\ wstack' = [wstack EXCEPT ![Len(wstack)] =
                     [wtop EXCEPT !.fragments = Append(@, processText(wtree.kind[wchild], wtop.st)),
                                  !.idx = @ + 1]]
    /\ UNCHANGED <<wtree, userRules, convertOptions, allRules, wpc, output, evals, applied, emitted, fellBack, pushLog>>
    /\ UNCHANGED <<dedupVars, extractVars, convertVars>>

\* A caller's rule that converts the children of its node's first element
\* child and returns undefined when there is none:
\* ({node, convertChildren}) => { const c = node.children.find(isTag);
\*                                return c ? convertChildren(c) : undefined }
firstElementChild(node) ==
    LET tags == { k \in 1..Len(kids(node)) : isTag(wtree.kind[kids(node)[k]]) }
    IN  IF tags = {} THEN 0 ELSE kids(node)[CHOOSE k \in tags : \A j \in tags : k <= j]
convertsOther(rule, node) == rule.replacement = "inner" /\ firstElementChild(node) # 0

\* applyRules: the next matching rule's replacement returns without calling
\* convertChildren.
CallReplacement ==
    /\ walking
    /\ isTag(wtree.kind[wchild])
    /\ wrule <= Len(allRules)
    /\ ~ruleThrows(allRules[wrule])
    /\ ~callsConvertChildren(allRules[wrule])
    /\ ~convertsOther(allRules[wrule], wchild)
    /\ LET result == replacement(allRules[wrule], wchild, wtop.st)
           after == afterRule(wtop, wrule, result)
       IN  /\ evals' = [evals EXCEPT ![wchild] =
                           Append(@, [rule |-> allRules[wrule].id, result |-> result,
                                      content |-> <<>>])]
           /\ wstack' = [wstack EXCEPT ![Len(wstack)] = after]
           /\ IF after.idx > wtop.idx
              THEN /\ applied' = applied \cup {wchild}
                   /\ emitted' = [emitted EXCEPT ![wchild] = pushedBy(wtop, after)]
                   /\ pushLog' = [pushLog EXCEPT ![wchild] = logged(wtop, after)]
              ELSE UNCHANGED <<applied, emitted, pushLog>>
    /\ UNCHANGED <<wtree, userRules, convertOptions, allRules, wpc, output, fellBack>>
    /\ UNCHANGED <<dedupVars, extractVars, convertVars>>

\* applyRules: the next matching rule's replacement calls convertChildren(node),
\* that is walk(node, deriveState(element, state)).
CallConvertChildren ==
    /\ walking
    /\ isTag(wtree.kind[wchild])
    /\ wrule <= Len(allRules)
    /\ ~ruleThrows(allRules[wrule])
    /\ callsConvertChildren(allRules[wrule])
    /\ wstack' = Append(wstack,
                        WFrame(wchild, deriveState(wtree.kind[wchild], wtop.st), "rule", wrule))
    /\ UNCHANGED <<wtree, userRules, convertOptions, allRules, wpc, output, evals, applied, emitted, fellBack, pushLog>>
    /\ UNCHANGED <<dedupVars, extractVars, convertVars>>

\* convertChildren returns into the replacement, which returns its result.
ReturnToReplacement ==
    /\ returning
    /\ wtop.mode = "rule"
    /\ LET child == wtop.node
           result == replacementWith(allRules[wtop.rule], child, wcaller.node, wcaller.idx,
                                     wcaller.st, join(wtop.fragments))
           after == afterRule(wcaller, wtop.rule, result)
       IN  /\ evals' = [evals EXCEPT ![child] =
                           Append(@, [rule |-> allRules[wtop.rule].id, result |-> result,
                                      content |-> <<join(wtop.fragments)>>])]
           /\ wstack' = Append(SubSeq(wstack, 1, Len(wstack) - 2), after)
           /\ IF after.idx > wcaller.idx
              THEN /\ applied' = applied \cup {child}
                   /\ emitted' = [emitted EXCEPT ![child] = pushedBy(wcaller, after)]
                   /\ pushLog' = [pushLog EXCEPT ![child] = logged(wcaller, after)]
              ELSE UNCHANGED <<applied, emitted, pushLog>>
    /\ UNCHANGED <<wtree, userRules, convertOptions, allRules, wpc, output, fellBack>>
    /\ UNCHANGED <<dedupVars, extractVars, convertVars>>

\* applyRules: no rule is left; return walk(element, deriveState(element, state)).
FallBackToWalk ==
    /\ walking
    /\ isTag(wtree.kind[wchild])
    /\ wrule > Len(allRules)
    /\ wstack' = Append(wstack,
                        WFrame(wchild, deriveState(wtree.kind[wchild], wtop.st), "fallback", 0))
    /\ UNCHANGED <<wtree, userRules, convertOptions, allRules, wpc, output, evals, applied, emitted, fellBack, pushLog>>
    /\ UNCHANGED <<dedupVars, extractVars, convertVars>>

\* That walk returns, and applyRules returns its result to the parent's walk.
ReturnFromFallBack ==
    /\ returning
    /\ wtop.mode = "fallback"
    /\ LET child == wtop.node
           result == Str(join(wtop.fragments))
           after == pushResult(wcaller, result)
       IN  /\ fellBack' = [fellBack EXCEPT ![child] = <<result.text>>]
           /\ wstack' = Append(SubSeq(wstack, 1, Len(wstack) - 2), after)
           /\ applied' = applied \cup {child}
           /\ emitted' = [emitted EXCEPT ![child] = pushedBy(wcaller, after)]
           /\ pushLog' = [pushLog EXCEPT ![child] = logged(wcaller, after)]
    /\ UNCHANGED <<wtree, userRules, convertOptions, allRules, wpc, output, evals>>
    /\ UNCHANGED <<dedupVars, extractVars, convertVars>>

\* walk(document) returns to convert.
ReturnToConvert ==
    /\ returning
    /\ wtop.mode = "document"
    /\ output' = join(wtop.fragments)
    /\ wstack' = <<>>
    /\ wpc' = "done"
    /\ UNCHANGED <<wtree, userRules, convertOptions, allRules, evals, applied, emitted, fellBack, pushLog>>
    /\ UNCHANGED <<dedupVars, extractVars, convertVars>>

NextWalk ==
    \/ Convert
    \/ WalkText
    \/ CallReplacement
    \/ CallConvertChildren
    \/ ReturnToReplacement
    \/ FallBackToWalk
    \/ ReturnFromFallBack
    \/ ReturnToConvert

SpecWalk == InitWalk /\ [][NextWalk]_vars

\* Longer child lists under few rule lists, for the spacing between siblings.
AdjacentRuleLists ==
    { <<>>,
      <<Rule("low", NameFilter("em"), "A", <<0>>)>>,
      <<Rule("low", NameFilter("em"), "A", <<0>>),
        Rule("wrap", ArrayFilter({"pre", "div"}), "wrap", <<5>>)>> }

AdjacentTrees ==
    UNION { { t \in [n : {n}, par : [1..n -> 0..(n - 1)], kind : [1..n -> WalkKinds]] :
                WellFormed(t) } : n \in 0..MaxSiblings }

InitAdjacent ==
    /\ DedupOff
    /\ ExtractOff
    /\ ConvertOff
    /\ wtree \in AdjacentTrees
    /\ userRules \in AdjacentRuleLists
    /\ allRules = <<>>
    /\ wstack = <<>>
    /\ wpc = "idle"
    /\ output = <<>>
    /\ evals = [k \in 1..wtree.n |-> <<>>]
    /\ applied = {}
    /\ emitted = [k \in 1..wtree.n |-> <<>>]
    /\ fellBack = [k \in 1..wtree.n |-> <<>>]
    /\ pushLog = [k \in 1..wtree.n |-> <<>>]
    /\ convertOptions = DEFAULTS

SpecAdjacent == InitAdjacent /\ [][NextWalk]_vars

\* Elements whose built-in rule tests its converted children for emptiness,
\* with the nodes that can make them empty.
MaxEmptyNodes == 2
EmptyKinds ==
    { WText(<<"x">>), WText(<<SP>>),
      WElement("h2"), WElement("p"), WElement("blockquote"), WElement("strong"),
      WElement("em"), WElement("del"), WElementWith("a", [href |-> <<"u">>]),
      WElement("sub"), WElement("sup"), WElement("li"), WElement("br"), WElement("span") }

EmptyTrees ==
    UNION { { t \in [n : {n}, par : [1..n -> 0..(n - 1)], kind : [1..n -> EmptyKinds]] :
                WellFormed(t) } : n \in 0..MaxEmptyNodes }

InitEmpty ==
    /\ DedupOff
    /\ ExtractOff
    /\ ConvertOff
    /\ wtree \in EmptyTrees
    /\ userRules = <<>>
    /\ allRules = <<>>
    /\ wstack = <<>>
    /\ wpc = "idle"
    /\ output = <<>>
    /\ evals = [k \in 1..wtree.n |-> <<>>]
    /\ applied = {}
    /\ emitted = [k \in 1..wtree.n |-> <<>>]
    /\ fellBack = [k \in 1..wtree.n |-> <<>>]
    /\ pushLog = [k \in 1..wtree.n |-> <<>>]
    /\ convertOptions \in { DEFAULTS, [DEFAULTS EXCEPT !.headingStyle = "setext"] }

SpecEmpty == InitEmpty /\ [][NextWalk]_vars

(***************************************************************************)
(* Vocabulary of the walker's claims.                                      *)
(***************************************************************************)
WElements == { k \in 1..wtree.n : isTag(wtree.kind[k]) }
\* The rules in insertion order: the caller's, then the built-in ones.
Registered == userRules \o getDefaultRules
PositionOf(id) == CHOOSE p \in 1..Len(Registered) : Registered[p].id = id
Priority(p) == IF Registered[p].priority = <<>> THEN 0 ELSE Registered[p].priority[1]
\* The order the rules are to be tried in.
Before(p, q) == Priority(p) > Priority(q) \/ (Priority(p) = Priority(q) /\ p < q)
MatchingPositions(e) ==
    { p \in 1..Len(Registered) : matchesFilter(Registered[p].filter, wtree.kind[e]) }
Tried(e) == [j \in 1..Len(evals[e]) |-> PositionOf(evals[e][j].rule)]
LastEval(e) == evals[e][Len(evals[e])]
Converting == wpc \in {"walk", "done"}
ProperDescendants(e) == { d \in 1..wtree.n : d # e /\ e \in AncestorsOrSelf(wtree.par, d) }

\* C9: the rules called for an element all match it, are called in descending
\* priority order, ties in insertion order (the caller's rules, then the
\* built-in ones), and none that comes earlier in that order is passed over.
C9_PriorityOrder ==
    Converting =>
        \A e \in WElements : \A j \in 1..Len(evals[e]) :
            /\ Tried(e)[j] \in MatchingPositions(e)
            /\ \A h \in 1..(j - 1) : Before(Tried(e)[h], Tried(e)[j])
            /\ \A q \in MatchingPositions(e) :
                   Before(q, Tried(e)[j]) => \E h \in 1..(j - 1) : Tried(e)[h] = q

\* A priority-0 rule registered before a priority-10 rule, both matching an
\* element whose fragment is the priority-10 rule's string.
C9_Witness ==
    /\ wpc = "done"
    /\ \E a, b \in 1..Len(userRules) : \E e \in WElements :
          /\ a < b
          /\ userRules[a].priority = <<0>>
          /\ userRules[b].priority = <<10>>
          /\ {a, b} \subseteq MatchingPositions(e)
          /\ e \in applied
          /\ LastEval(e).rule = userRules[b].id
          /\ LastEval(e).result.kind = "string"
          /\ emitted[e] = <<LastEval(e).result.text>>

\* C10: every call for an element but the last returned undefined; once
\* applyRules has returned, a last result that is a string is the fragment
\* pushed; a last result null means no fragment, no walk of the children by
\* applyRules, and no rule called below the element unless the replacement
\* itself converted the children; otherwise every matching rule was called and
\* the fragment is the walk of the children.
C10_ResultInterpretation ==
    Converting =>
        \A e \in WElements :
            /\ \A j \in 1..(Len(evals[e]) - 1) : evals[e][j].result = Undefined
            /\ e \notin applied => emitted[e] = <<>> /\ fellBack[e] = <<>>
            /\ e \in applied =>
                  IF evals[e] # <<>> /\ LastEval(e).result.kind = "string"
                  THEN emitted[e] = <<LastEval(e).result.text>> /\ fellBack[e] = <<>>
                  ELSE IF evals[e] # <<>> /\ LastEval(e).result.kind = "null"
                  THEN /\ emitted[e] = <<>>
                       /\ fellBack[e] = <<>>
                       /\ \A j \in 1..Len(evals[e]) :
                              callsConvertChildren(Registered[Tried(e)[j]]) => j = Len(evals[e])
                       /\ ~callsConvertChildren(Registered[Tried(e)[Len(evals[e])]])
                              => \A d \in ProperDescendants(e) : evals[d] = <<>> /\ d \notin applied
                  ELSE /\ Len(evals[e]) = Cardinality(MatchingPositions(e))
                       /\ fellBack[e] # <<>>
                       /\ emitted[e] = fellBack[e]

\* An element with children for which one rule fell through and the next
\* returned null without converting the children.
C10_Witness ==
    /\ wpc = "done"
    /\ \E e \in WElements :
          /\ e \in applied
          /\ Len(evals[e]) >= 2
          /\ evals[e][1].result = Undefined
          /\ LastEval(e).result = Null
          /\ ~callsConvertChildren(Registered[Tried(e)[Len(evals[e])]])
          /\ \E d \in ProperDescendants(e) : isTag(wtree.kind[d])

\* The positions of the caller's rules and of the built-in rules in Registered.
UserPositions == 1..Len(userRules)
BuiltInPositions == (Len(userRules) + 1)..Len(Registered)

\* C11: whenever a built-in rule is called for an element, every rule of the
\* caller that has no priority and matches the element was called before it.
C11_UserRuleFirst ==
    Converting =>
        \A e \in WElements : \A j \in 1..Len(evals[e]) :
            Tried(e)[j] \in BuiltInPositions =>
                \A u \in UserPositions \cap MatchingPositions(e) :
                    Registered[u].priority = <<>> => \E h \in 1..(j - 1) : Tried(e)[h] = u

\* A rule of the caller without priority fell through and the built-in rule
\* for the same element was called next.
C11_Witness ==
    /\ wpc = "done"
    /\ \E e \in WElements :
          /\ Len(evals[e]) = 2
          /\ Tried(e)[1] \in UserPositions
          /\ Registered[Tried(e)[1]].priority = <<>>
          /\ Tried(e)[2] \in BuiltInPositions
          /\ Priority(Tried(e)[2]) = 0
          /\ e \in applied

\* The nearest preceding sibling of e, <<>> when e is a first child.
PrecedingSibling(e) ==
    LET before == { k \in 1..(e - 1) : wtree.par[k] = wtree.par[e] }
    IN  IF before = {} THEN <<>> ELSE <<CHOOSE k \in before : \A h \in before : h <= k>>
EndsInWhitespace(s) == s # <<>> /\ IsSpace(s[Len(s)])
ProducedOutput(e) == emitted[e] # <<>> /\ emitted[e][1] # <<>>
OutsidePreAndTable(e) == ~pushLog[e][1].st.insidePre /\ ~pushLog[e][1].st.insideTable

\* C12: a space is pushed before an element's fragment exactly when the
\* fragment is not empty, the walk is outside <pre> and <table>, the output
\* accumulated for the parent does not end in whitespace, and the nearest
\* preceding sibling is an element that produced output.
C12_AdjacentSpacing ==
    Converting =>
        \A e \in applied :
            pushLog[e][1].space <=>
                /\ ProducedOutput(e)
                /\ OutsidePreAndTable(e)
                /\ ~EndsInWhitespace(pushLog[e][1].before)
                /\ PrecedingSibling(e) # <<>>
                /\ isTag(wtree.kind[PrecedingSibling(e)[1]])
                /\ ProducedOutput(PrecedingSibling(e)[1])

\* The elements whose built-in rule suppresses empty content.
Suppressible ==
    {"h1", "h2", "h3", "h4", "h5", "h6", "p", "blockquote", "strong", "b", "em", "i",
     "del", "s", "strike", "a", "sub", "sup", "li"}
\* The converted children of e were empty after trimming.
EmptyContent(e) ==
    /\ evals[e] # <<>>
    /\ LastEval(e).content # <<>>
    /\ trim(LastEval(e).content[1]) = <<>>
Markers == {"#", "*", "~", "[", "]", "(", ")", "-", "^", ">", "="}

\* C13: for an element of these kinds whose converted children are empty
\* after trimming, walk pushes neither a fragment nor a separator; when every
\* such element of the document is empty, the output holds no marker.
C13_EmptySuppressed ==
    Converting =>
        /\ \A e \in applied :
               wtree.kind[e].name \in Suppressible /\ EmptyContent(e) =>
                   emitted[e] = <<>> /\ ~pushLog[e][1].space
        /\ ( /\ wpc = "done"
             /\ \A e \in WElements : wtree.kind[e].name \in Suppressible => EmptyContent(e) )
           => \A k \in 1..Len(output) : output[k] \notin Markers

\* An element of these kinds with a child and empty converted children.
C13_Witness ==
    /\ wpc = "done"
    /\ \E e \in applied :
          /\ wtree.kind[e].name \in Suppressible
          /\ kids(e) # <<>>
          /\ EmptyContent(e)
          /\ emitted[e] = <<>>

(***************************************************************************)
(* convert after the walk: render, deduplicateBlocks when asked for, the   *)
(* token counter and contentHash.                                          *)
(***************************************************************************)
MaxLines == 4

\* The number of characters from position k of s on that lie in set.
RECURSIVE runLength(_, _, _)
runLength(s, k, set) ==
    IF k > Len(s) \/ s[k] \notin set THEN 0 ELSE 1 + runLength(s, k + 1, set)

\* raw.replaceAll(/\r\n?/g, '\n')
RECURSIVE normalizeNewlines(_)
normalizeNewlines(s) ==
    IF s = <<>> THEN <<>>
    ELSE IF Head(s) = "\r"
         THEN <<NL>> \o normalizeNewlines(IF Len(s) >= 2 /\ s[2] = NL
                                          THEN Tail(Tail(s)) ELSE Tail(s))
         ELSE <<Head(s)>> \o normalizeNewlines(Tail(s))

\* .replaceAll(/\n[ \t]+\n/g, '\n\n'): each search resumes after the last match.
RECURSIVE collapseBlankLines(_)
collapseBlankLines(s) ==
    IF s = <<>> THEN <<>>
    ELSE LET n == runLength(s, 2, {SP, "\t"})
         IN  IF Head(s) = NL /\ n >= 1 /\ Len(s) >= n + 2 /\ s[n + 2] = NL
             THEN <<NL, NL>> \o collapseBlankLines(SubSeq(s, n + 3, Len(s)))
             ELSE <<Head(s)>> \o collapseBlankLines(Tail(s))

\* .replaceAll(/\n{3,}/g, '\n\n')
RECURSIVE collapseNewlines(_)
collapseNewlines(s) ==
    IF s = <<>> THEN <<>>
    ELSE LET n == runLength(s, 1, {NL})
         IN  IF n >= 3 THEN <<NL, NL>> \o collapseNewlines(SubSeq(s, n + 1, Len(s)))
             ELSE <<Head(s)>> \o collapseNewlines(Tail(s))

\* A variant of the map that trims every line.
renderLine_TrimAll(line) == trimEnd(line)

\* The map over the lines: /\S {2}$/ keeps a hard line break.
renderLine(line) ==
    IF /\ Len(line) >= 3
       /\ line[Len(line)] = SP
       /\ line[Len(line) - 1] = SP
       /\ ~IsSpace(line[Len(line) - 2])
    THEN trimEnd(line) \o <<SP, SP>>
    ELSE trimEnd(line)

\* A variant of render that trims the end only.
render_TrimEndOnly(raw) ==
    LET lines == split(collapseNewlines(collapseBlankLines(normalizeNewlines(raw))), NL)
    IN  Append(trimEnd(joinWith([k \in 1..Len(lines) |-> renderLine(lines[k])], <<NL>>)), NL)

render(raw) ==
    LET lines == split(collapseNewlines(collapseBlankLines(normalizeNewlines(raw))), NL)
    IN  Append(trim(joinWith([k \in 1..Len(lines) |-> renderLine(lines[k])], <<NL>>)), NL)

\* The code points of the characters that occur in the model's strings.
Ascii ==
    << SP, "!", "\"", "#", "$", "%", "&", "'", "(", ")", "*", "+", ",", "-", ".", "/",
       "0", "1", "2", "3", "4", "5", "6", "7", "8", "9", ":", ";", "<", "=", ">", "?",
       "@", "A", "B", "C", "D", "E", "F", "G", "H", "I", "J", "K", "L", "M", "N", "O",
       "P", "Q", "R", "S", "T", "U", "V", "W", "X", "Y", "Z", "[", "\\", "]", "^", "_",
       BQ, "a", "b", "c", "d", "e", "f", "g", "h", "i", "j", "k", "l", "m", "n", "o",
       "p", "q", "r", "s", "t", "u", "v", "w", "x", "y", "z", "{", "|", "}", "~" >>
codePointAt(c) ==
    IF c = "\t" THEN 9 ELSE IF c = NL THEN 10 ELSE IF c = "\r" THEN 13
    ELSE 31 + (CHOOSE k \in 1..Len(Ascii) : Ascii[k] = c)

\* 32-bit words as <<high 16 bits, low 16 bits>>.
\* The bit of weight p in a ^ b.
bitXor(a, b, p) == IF (a \div p) % 2 = (b \div p) % 2 THEN 0 ELSE p
\* a ^ b on 16 bits
xor(a, b) ==
    bitXor(a, b, 1) + bitXor(a, b, 2) + bitXor(a, b, 4) + bitXor(a, b, 8)
        + bitXor(a, b, 16) + bitXor(a, b, 32) + bitXor(a, b, 64) + bitXor(a, b, 128)
        + bitXor(a, b, 256) + bitXor(a, b, 512) + bitXor(a, b, 1024) + bitXor(a, b, 2048)
        + bitXor(a, b, 4096) + bitXor(a, b, 8192) + bitXor(a, b, 16384) + bitXor(a, b, 32768)
\* h ^= code
xorWord(h, code) == <<h[1], xor(h[2], code)>>
\* Math.imul(h, 0x01000193), with 0x01000193 = 2^24 + 403
imulPrime(h) ==
    LET low == h[2] * 403
    IN  <<(h[1] * 403 + (low \div 65536) + (h[2] % 256) * 256) % 65536, low % 65536>>

\* n.toString(36)
Base36 ==
    << "0", "1", "2", "3", "4", "5", "6", "7", "8", "9", "a", "b", "c", "d", "e", "f",
       "g", "h", "i", "j", "k", "l", "m", "n", "o", "p", "q", "r", "s", "t", "u", "v",
       "w", "x", "y", "z" >>
RECURSIVE toBase36(_)
toBase36(n) ==
    IF n < 36 THEN <<Base36[n + 1]>> ELSE toBase36(n \div 36) \o <<Base36[(n % 36) + 1]>>
\* (h >>> 0).toString(36), by long division of the two halves
RECURSIVE wordToBase36(_)
wordToBase36(h) ==
    IF h[1] = 0 THEN toBase36(h[2])
    ELSE LET rest == (h[1] % 36) * 65536 + h[2]
         IN  wordToBase36(<<h[1] \div 36, rest \div 36>>) \o <<Base36[(rest % 36) + 1]>>

\* contentHash: FNV-1a from 0x811c9dc5 over the characters of str.  fnv1a is
\* the value of h after the rounds lo..hi of the loop, started from h; the
\* rounds are split in halves, and the first half is evaluated before the
\* second is entered, which keeps the depth of evaluation logarithmic.
IsWord(h) == h[1] \in 0..65535 /\ h[2] \in 0..65535
RECURSIVE fnv1a(_, _, _, _)
fnv1a(h, str, lo, hi) ==
    IF lo > hi THEN h
    ELSE IF lo = hi THEN imulPrime(xorWord(h, codePointAt(str[lo])))
    ELSE LET firstHalf == fnv1a(h, str, lo, (lo + hi) \div 2)
         IN  IF IsWord(firstHalf) THEN fnv1a(firstHalf, str, (lo + hi) \div 2 + 1, hi)
             ELSE firstHalf
contentHash(str) ==
    toBase36(Len(str)) \o <<"-">> \o wordToBase36(fnv1a(<<33052, 40389>>, str, 1, Len(str)))

\* text.split(/\s+/).filter(Boolean).length
RECURSIVE countWords(_, _)
countWords(s, inWord) ==
    IF s = <<>> THEN 0
    ELSE IF IsSpace(Head(s)) THEN countWords(Tail(s), FALSE)
    ELSE (IF inWord THEN 0 ELSE 1) + countWords(Tail(s), TRUE)

\* A variant that rounds down.
ceilQuarter_Floor(characters) == characters \div 4

\* Math.ceil(characters / 4)
ceilQuarter(characters) == (characters + 3) \div 4

estimateTokens(text) ==
    [tokens |-> ceilQuarter(Len(text)), characters |-> Len(text),
     words |-> countWords(text, FALSE)]

\* The caller's counter of the inputs: text => ({tokens: 42, characters:
\* text.length, words: 0}).
\* A tokenCounter that throws.
counterThrows(counter) == counter = <<"throws">>

customCounter(text) == [tokens |-> 42, characters |-> Len(text), words |-> 0]

\* The lines the raw strings are made of.
LinePalette ==
    { <<>>, <<SP>>, <<"a">>, <<"a", SP, SP>>, <<"a", SP, SP, SP>>, <<"#", SP, "a">>,
      <<"a", "\r">> }
RawStrings == { joinWith(ls, <<NL>>) : ls \in SeqsUpTo(LinePalette, MaxLines) }

DeduplicateOptions ==
    { [on |-> FALSE, minLength |-> <<>>],      \* absent or false
      [on |-> TRUE, minLength |-> <<>>],       \* true
      [on |-> TRUE, minLength |-> <<1>>] }     \* { minLength: 1 }
TokenCounters == { <<>>, <<"custom">> }

\* The state in which walk(document) has just returned raw.
InitRender ==
    /\ ExtractOff
    /\ DedupOff
    /\ wtree = [n |-> 0, par |-> <<>>, kind |-> <<>>]
    /\ userRules = <<>>
    /\ allRules = <<>>
    /\ wstack = <<>>
    /\ wpc = "done"
    /\ output \in RawStrings
    /\ evals = <<>>
    /\ applied = {}
    /\ emitted = <<>>
    /\ fellBack = <<>>
    /\ pushLog = <<>>
    /\ convertOptions = DEFAULTS
    /\ cpc = "idle"
    /\ deduplicate \in DeduplicateOptions
    /\ tokenCounter \in TokenCounters
    /\ rendered = <<>>
    /\ counterLog = <<>>
    /\ convertResult = <<>>
    /\ cached = <<>>
    /\ thrown = <<>>
    /\ http = <<>>

\* convert: let markdown = render(raw); with opts.deduplicate, the call of
\* deduplicateBlocks(markdown, minLength) starts.
Render ==
    /\ cpc = "idle"
    /\ wpc = "done"
    /\ rendered' = render(output)
    /\ IF deduplicate.on
       THEN /\ markdown' = render(output)
            /\ minLengthArg' = deduplicate.minLength
            /\ pc' = "idle"
            /\ cpc' = "dedup"
            /\ UNCHANGED <<blocks, i, seen, kept, keptIdx, results>>
       ELSE /\ cpc' = "count"
            /\ UNCHANGED dedupVars
    /\ UNCHANGED <<deduplicate, tokenCounter, counterLog, convertResult, cached, thrown, http>>
    /\ UNCHANGED <<extractVars, walkVars>>

\* convert: the token counter is called and the result returned.
CountAndReturn ==
    /\ cpc = "count" \/ (cpc = "dedup" /\ pc = "done")
    /\ ~counterThrows(tokenCounter)
    /\ LET md == IF cpc = "dedup" THEN results[Len(results)] ELSE rendered
           tokenEstimate == IF tokenCounter # <<>> THEN customCounter(md)
                            ELSE estimateTokens(md)
       IN  /\ counterLog' = Append(counterLog, [counter |-> tokenCounter, text |-> md])
           /\ convertResult' = Append(convertResult,
                                       [markdown |-> md, tokenEstimate |-> tokenEstimate,
                                        contentHash |-> contentHash(md)])
    /\ cpc' = "returned"
    /\ UNCHANGED <<deduplicate, tokenCounter, rendered, cached, thrown, http>>
    /\ UNCHANGED <<dedupVars, extractVars, walkVars>>

NextRender ==
    \/ Render
    \/ Call
    \/ SkipEmpty
    \/ ProcessHeadingBlock
    \/ ProcessContentBlock
    \/ Return
    \/ CountAndReturn

SpecRender == InitRender /\ [][NextRender]_vars

\* C14: the output of render holds no three consecutive newlines.
C14_NoTripleNewline ==
    cpc # "idle" =>
        \A k \in 1..(Len(rendered) - 2) :
            ~(rendered[k] = NL /\ rendered[k + 1] = NL /\ rendered[k + 2] = NL)

\* The lines of a string that hold a character other than whitespace, in
\* order; a line ends at "\n", "\r" or the end of the string.
RECURSIVE Segments(_, _)
Segments(s, cur) ==
    IF s = <<>> THEN <<cur>>
    ELSE IF Head(s) \in {NL, "\r"} THEN <<cur>> \o Segments(Tail(s), <<>>)
    ELSE Segments(Tail(s), Append(cur, Head(s)))
IsBlank(line) == \A k \in 1..Len(line) : IsSpace(line[k])
NonBlankLines(s) == SelectSeq(Segments(s, <<>>), LAMBDA l : ~IsBlank(l))
EndsInSpaces(line, n) ==
    Len(line) >= n /\ \A k \in (Len(line) - n + 1)..Len(line) : line[k] = SP
NoTrailingWhitespace(line) == line = <<>> \/ ~IsSpace(line[Len(line)])
ExactlyTwoSpaces(line) ==
    Len(line) >= 3 /\ EndsInSpaces(line, 2) /\ ~IsSpace(line[Len(line) - 2])
\* The k-th line with content of the input is the k-th of the output, and the
\* lines of the output without content are empty.
LinesCorrespond ==
    /\ Len(NonBlankLines(rendered)) = Len(NonBlankLines(output))
    /\ \A k \in 1..Len(Segments(rendered, <<>>)) :
           IsBlank(Segments(rendered, <<>>)[k]) => Segments(rendered, <<>>)[k] = <<>>

\* C15 as stated: a line ending in two or more spaces that further content
\* follows ends in exactly two spaces in the output of render; every other
\* line of the output has no trailing whitespace.
C15_HardBreakTwoOrMore ==
    cpc # "idle" =>
        /\ LinesCorrespond
        /\ \A k \in 1..Len(NonBlankLines(output)) :
               IF EndsInSpaces(NonBlankLines(output)[k], 2) /\ k < Len(NonBlankLines(output))
               THEN ExactlyTwoSpaces(NonBlankLines(rendered)[k])
               ELSE NoTrailingWhitespace(NonBlankLines(rendered)[k])

\* C15 amended: only a line that ends in exactly two spaces right after a
\* character other than whitespace, and that further content follows, keeps
\* its two spaces; every other line of the output has no trailing whitespace.
C15_HardBreakExactlyTwo ==
    cpc # "idle" =>
        /\ LinesCorrespond
        /\ \A k \in 1..Len(NonBlankLines(output)) :
               IF ExactlyTwoSpaces(NonBlankLines(output)[k]) /\ k < Len(NonBlankLines(output))
               THEN ExactlyTwoSpaces(NonBlankLines(rendered)[k])
               ELSE NoTrailingWhitespace(NonBlankLines(rendered)[k])

C15_Witness ==
    /\ cpc # "idle"
    /\ Len(NonBlankLines(output)) = 3
    /\ ExactlyTwoSpaces(NonBlankLines(output)[1])
    /\ EndsInSpaces(NonBlankLines(output)[2], 3)
    /\ ExactlyTwoSpaces(NonBlankLines(rendered)[1])
    /\ NoTrailingWhitespace(NonBlankLines(rendered)[2])

\* The strings convert has produced so far: by render, by deduplicateBlocks,
\* and the markdown returned.
Produced ==
    (IF cpc # "idle" THEN {rendered} ELSE {})
        \cup { results[k] : k \in 1..Len(results) }
        \cup { convertResult[k].markdown : k \in 1..Len(convertResult) }
WellEnded(s) ==
    /\ Len(s) >= 1
    /\ s[Len(s)] = NL
    /\ Len(s) >= 2 => (s[Len(s) - 1] # NL /\ ~IsSpace(s[1]))

\* C16: the markdown of render, of deduplicateBlocks and of convert ends with
\* exactly one newline and has no leading whitespace; with no content it is
\* exactly "\n".
C16_OutputConvention ==
    /\ \A s \in Produced : WellEnded(s)
    /\ (cpc # "idle" /\ IsBlank(output)) => Produced = {<<NL>>}

C16_Witness ==
    /\ cpc = "returned"
    /\ deduplicate.on
    /\ output # <<>>
    /\ IsSpace(output[1])
    /\ IsSpace(output[Len(output)])
    /\ ~IsBlank(output)
    /\ convertResult[1].markdown # rendered

\* C18: the token counter is called exactly once in a call of convert, after
\* render and after deduplicateBlocks, with the markdown convert returns; the
\* result of a custom counter is returned as it is, the built-in one returns
\* tokens = ceil(characters / 4) for that string.
C18_TokenCounterOnce ==
    /\ [](cpc # "returned" => counterLog = <<>>)
    /\ [](cpc = "returned" =>
            /\ Len(counterLog) = 1
            /\ counterLog[1].counter = tokenCounter
            /\ counterLog[1].text = convertResult[1].markdown
            /\ tokenCounter # <<>> =>
                   convertResult[1].tokenEstimate = customCounter(counterLog[1].text)
            /\ tokenCounter = <<>> =>
                   /\ convertResult[1].tokenEstimate.characters = Len(counterLog[1].text)
                   /\ 4 * convertResult[1].tokenEstimate.tokens >= Len(counterLog[1].text)
                   /\ 4 * (convertResult[1].tokenEstimate.tokens - 1) < Len(counterLog[1].text))
    /\ [][counterLog' # counterLog =>
            /\ cpc \in {"count", "dedup"}
            /\ deduplicate.on => (pc = "done" /\ counterLog'[1].text = results[Len(results)])
            /\ ~deduplicate.on => counterLog'[1].text = rendered
            /\ cpc' = "returned"]_vars

C18_Witness ==
    /\ cpc = "returned"
    /\ deduplicate.on
    /\ tokenCounter = <<>>
    /\ convertResult[1].markdown # rendered
    /\ Len(convertResult[1].markdown) % 4 # 0
    /\ Len(counterLog) = 1

(***************************************************************************)
(* Links and images with a base URL.                                       *)
(***************************************************************************)
MaxLinkNodes == 2
\* The values of href and src: root-relative, path-relative, a relative file
\* name that begins with "http", absolute, fragment-only, data:, mailto:,
\* and none.
UrlPalette ==
    { <<"/", "a">>, <<"b">>, <<"h", "t", "t", "p", "d", ".", "h", "t", "m", "l">>,
      <<"h", "t", "t", "p", "s", ":", "/", "/", "o", ".", "i", "o", "/", "p">>,
      <<"#", "f">>, <<"d", "a", "t", "a", ":", ",", "x">>,
      <<"m", "a", "i", "l", "t", "o", ":", "m">>, <<>> }
BaseUrl == <<"h", "t", "t", "p", "s", ":", "/", "/", "e", ".", "i", "o", "/", "d", "/", "p">>
LinkKinds ==
    {WText(<<"x">>), WElement("span")}
        \cup { WElementWith("a", [href |-> u]) : u \in UrlPalette }
        \cup { WElementWith("img", [src |-> u]) : u \in UrlPalette }
LinkTrees ==
    UNION { { t \in [n : {n}, par : [1..n -> 0..(n - 1)], kind : [1..n -> LinkKinds]] :
                WellFormed(t) } : n \in 0..MaxLinkNodes }

InitLinks ==
    /\ DedupOff
    /\ ExtractOff
    /\ ConvertOff
    /\ wtree \in LinkTrees
    /\ userRules = <<>>
    /\ allRules = <<>>
    /\ wstack = <<>>
    /\ wpc = "idle"
    /\ output = <<>>
    /\ evals = [k \in 1..wtree.n |-> <<>>]
    /\ applied = {}
    /\ emitted = [k \in 1..wtree.n |-> <<>>]
    /\ fellBack = [k \in 1..wtree.n |-> <<>>]
    /\ pushLog = [k \in 1..wtree.n |-> <<>>]
    /\ convertOptions \in { DEFAULTS, [DEFAULTS EXCEPT !.baseUrl = BaseUrl],
                             [DEFAULTS EXCEPT !.linkStyle = "referenced"] }

SpecLinks == InitLinks /\ [][NextWalk]_vars

\* The elements a built-in link or image rule has produced a string for, the
\* URL of the attribute and the URL between the parentheses of the string.
Linked ==
    { e \in applied : wtree.kind[e].name \in {"a", "img"} /\ LastEval(e).result.kind = "string" }
GivenUrl(e) == IF wtree.kind[e].name = "a" THEN attr(e, "href") ELSE attr(e, "src")
EmittedUrl(e) ==
    LET text == LastEval(e).result.text
        open == lastIndexOfChar(text, "(", Len(text))
    IN  SubSeq(text, open + 1, Len(text) - 1)
StaysAsItIs(e) ==
    \/ hasScheme(GivenUrl(e))
    \/ wtree.kind[e].name = "a" /\ startsWith(GivenUrl(e), <<"#">>)
    \/ startsWith(GivenUrl(e), <<"d", "a", "t", "a", ":">>)

\* C20: with a base URL, the built-in <a> and <img> rules emit a URL that has
\* a scheme, a fragment-only href and a data: URI unchanged, and every other
\* non-empty URL resolved against the base, in absolute form.
C20_ResolveRelative ==
    (Converting /\ convertOptions.baseUrl # <<>>) =>
        \A e \in Linked :
            GivenUrl(e) # <<>> =>
                IF StaysAsItIs(e) THEN EmittedUrl(e) = GivenUrl(e)
                ELSE /\ EmittedUrl(e) = resolveUrl(GivenUrl(e), convertOptions.baseUrl)
                     /\ hasScheme(EmittedUrl(e))

(***************************************************************************)
(* convert as a whole, called more than once with the same arguments:      *)
(* parse, extractContent, walk, render, the token counter and the return.  *)
(***************************************************************************)
MaxConvertNodes == 2
MaxConvertCalls == 2

\* The documents of the html argument: text, <p>, <br>, <div> and <div
\* class="promo">.
ConvertKinds ==
    { TextNode, Element("p", NoAttribs), Element("br", NoAttribs), Element("div", NoAttribs),
      Element("div", [NoAttribs EXCEPT !.class = <<PromoText>>]) }
ConvertDocs ==
    UNION { { t \in [n : {n}, par : [1..n -> 0..(n - 1)], kind : [1..n -> ConvertKinds]] :
                WellFormed(t) } : n \in 0..MaxConvertNodes }
\* The extract option: true, { stripClasses: [/promo/g] } and
\* { stripClasses: ['promo'] }.
ExtractPalette ==
    { NoOptions,
      [NoOptions EXCEPT !.stripClasses = <<PromoGlobalRe>>],
      [NoOptions EXCEPT !.stripClasses = <<PromoString>>] }

\* The document the walker is given: the nodes still reachable through the
\* children lists, in document order.  Every text node reads "x".
walkerNode(node) ==
    IF ~isTag(node) THEN WText(<<"x">>)
    ELSE IF node.attribs.class # <<>>
         THEN WElementWith(node.name, [class |-> node.attribs.class[1]])
         ELSE WElement(node.name)
documentOf(t, ch) ==
    LET left == ascending(reachable(ch, 0) \ {0})
        rank(k) == IF k = 0 THEN 0 ELSE CHOOSE r \in 1..Len(left) : left[r] = k
    IN  [n |-> Len(left),
         par |-> [r \in 1..Len(left) |-> rank(t.par[left[r]])],
         kind |-> [r \in 1..Len(left) |-> walkerNode(t.kind[left[r]])]]

InitConvert ==
    /\ DedupOff
    /\ tree \in ConvertDocs
    /\ children = parsedChildren(tree)
    /\ parentOf = parsedParents(tree)
    /\ options \in ExtractPalette
    /\ stack = <<>>
    /\ lastIndex = 0
    /\ epc = "idle"
    /\ run = "configured"
    /\ remaining = [r \in {} |-> {}]
    /\ wtree = [n |-> 0, par |-> <<>>, kind |-> <<>>]
    /\ userRules = <<>>
    /\ allRules = <<>>
    /\ wstack = <<>>
    /\ wpc = "off"
    /\ output = <<>>
    /\ evals = <<>>
    /\ applied = {}
    /\ emitted = <<>>
    /\ fellBack = <<>>
    /\ pushLog = <<>>
    /\ convertOptions = DEFAULTS
    /\ cpc = "idle"
    /\ deduplicate = [on |-> FALSE, minLength |-> <<>>]
    /\ tokenCounter = <<>>
    /\ rendered = <<>>
    /\ counterLog = <<>>
    /\ convertResult = <<>>
    /\ cached = <<>>
    /\ thrown = <<>>
    /\ http = <<>>

\* convert, after extractContent has returned: merge and sort the rules and
\* call walk(document, ...).
WalkDocument ==
    /\ cpc = "idle"
    /\ epc = "done"
    /\ wpc = "off"
    /\ wtree' = documentOf(tree, children)
    /\ cached' = cachedAfterCall(cached)
    /\ allRules' = sortRules(mergeRules(userRules, cached'[1].rules))
    /\ wstack' = <<WFrame(0, InitialState, "document", 0)>>
    /\ wpc' = "walk"
    /\ output' = <<>>
    /\ evals' = [k \in 1..wtree'.n |-> <<>>]
    /\ applied' = {}
    /\ emitted' = [k \in 1..wtree'.n |-> <<>>]
    /\ fellBack' = [k \in 1..wtree'.n |-> <<>>]
    /\ pushLog' = [k \in 1..wtree'.n |-> <<>>]
    /\ UNCHANGED <<userRules, convertOptions>>
    /\ UNCHANGED <<cpc, deduplicate, tokenCounter, rendered, counterLog, convertResult, thrown, http>>
    /\ UNCHANGED <<dedupVars, extractVars>>

\* The caller calls convert again with the same html and the same options
\* object: the document is parsed afresh, the caller's RegExp objects are
\* the same objects.
ConvertAgain ==
    /\ cpc = "returned"
    /\ Len(convertResult) < MaxConvertCalls
    /\ children' = parsedChildren(tree)
    /\ parentOf' = parsedParents(tree)
    /\ stack' = <<>>
    /\ epc' = "idle"
    /\ wpc' = "off"
    /\ cpc' = "idle"
    /\ UNCHANGED <<tree, options, lastIndex, run, remaining>>
    /\ UNCHANGED <<wtree, userRules, allRules, wstack, output, evals, applied, emitted,
                   fellBack, pushLog, convertOptions>>
    /\ UNCHANGED <<deduplicate, tokenCounter, rendered, counterLog, convertResult, cached, thrown, http>>
    /\ UNCHANGED dedupVars

NextConvert ==
    \/ ExtractContent
    \/ SkipNonTag
    \/ CollectMatch
    \/ Recurse
    \/ SpliceAndReturn
    \/ WalkDocument
    \/ WalkText
    \/ CallReplacement
    \/ CallConvertChildren
    \/ ReturnToReplacement
    \/ FallBackToWalk
    \/ ReturnFromFallBack
    \/ ReturnToConvert
    \/ Render
    \/ CountAndReturn
    \/ ConvertAgain

SpecConvert == InitConvert /\ [][NextConvert]_vars

\* C17: two calls of convert with the same arguments return the same markdown
\* and the same contentHash, whatever calls came before.
C17_Deterministic ==
    \A j, k \in 1..Len(convertResult) :
        /\ convertResult[j].markdown = convertResult[k].markdown
        /\ convertResult[j].contentHash = convertResult[k].contentHash

(***************************************************************************)
(* Preformatted text through walk and render.                              *)
(***************************************************************************)
MaxPreNodes == 2
\* Text with inner spaces, with spaces at the end of a line, and with two
\* blank lines.
PreKinds ==
    { WText(<<"x">>), WText(<<"a", SP, SP, "b">>), WText(<<"a", SP, SP, SP, NL, "b">>),
      WText(<<"a", NL, NL, NL, "b">>),
      WElement("pre"), WElement("code"), WElement("span"), WElement("em") }
PreTrees ==
    UNION { { t \in [n : {n}, par : [1..n -> 0..(n - 1)], kind : [1..n -> PreKinds]] :
                WellFormed(t) } : n \in 0..MaxPreNodes }

InitPre ==
    /\ DedupOff
    /\ ExtractOff
    /\ wtree \in PreTrees
    /\ userRules = <<>>
    /\ allRules = <<>>
    /\ wstack = <<>>
    /\ wpc = "idle"
    /\ output = <<>>
    /\ evals = [k \in 1..wtree.n |-> <<>>]
    /\ applied = {}
    /\ emitted = [k \in 1..wtree.n |-> <<>>]
    /\ fellBack = [k \in 1..wtree.n |-> <<>>]
    /\ pushLog = [k \in 1..wtree.n |-> <<>>]
    /\ convertOptions \in { DEFAULTS, [DEFAULTS EXCEPT !.codeBlockStyle = "indented"],
                             [DEFAULTS EXCEPT !.fenceChar = <<"~">>] }
    /\ cpc = "idle"
    /\ deduplicate = [on |-> FALSE, minLength |-> <<>>]
    /\ tokenCounter = <<>>
    /\ rendered = <<>>
    /\ counterLog = <<>>
    /\ convertResult = <<>>
    /\ cached = <<>>
    /\ thrown = <<>>
    /\ http = <<>>

NextPre ==
    \/ NextWalk
    \/ Render
    \/ CountAndReturn

SpecPre == InitPre /\ [][NextPre]_vars

\* The <pre> elements the built-in rule has converted, and the code block
\* that holds the text of one character for character.
PreElements == { e \in applied : evals[e] # <<>> /\ LastEval(e).rule = "pre" }
VerbatimBlock(e) ==
    repeat(convertOptions.fenceChar, 3) \o <<NL>> \o getTextContent(e) \o <<NL>>
        \o repeat(convertOptions.fenceChar, 3)

\* C19: the markdown convert returns holds, for every <pre> element, a code
\* block whose body is the element's text content character for character.
C19_PreVerbatim ==
    cpc = "returned" =>
        \A e \in PreElements : includes(convertResult[1].markdown, VerbatimBlock(e))

(***************************************************************************)
(* Lists: one <ol> or <ul> and its children.                               *)
(***************************************************************************)
MaxItems == 3
\* The list element: <ol>, <ol start="5">, <ol start="x"> and <ul>.
ListPalette ==
    { WElement("ol"), WElementWith("ol", [start |-> <<"5">>]),
      WElementWith("ol", [start |-> <<"x">>]), WElement("ul") }
\* The children of the list: <li>x</li>, <li></li>, whitespace between the
\* items, <span>x</span> and <hr>.  up is the place of the parent among the nodes
\* of the child, 0 for the list itself.
ItemNodes(item) ==
    CASE item = "li" -> <<[kind |-> WElement("li"), up |-> 0], [kind |-> WText(<<"x">>), up |-> 1]>>
      [] item = "empty" -> <<[kind |-> WElement("li"), up |-> 0]>>
      [] item = "space" -> <<[kind |-> WText(<<SP>>), up |-> 0]>>
      [] item = "span" -> <<[kind |-> WElement("span"), up |-> 0], [kind |-> WText(<<"x">>), up |-> 1]>>
      [] item = "hr" -> <<[kind |-> WElement("hr"), up |-> 0]>>
ItemPalette == {"li", "empty", "space", "span", "hr"}
\* The nodes after the list element (node 1), numbered in document order.
RECURSIVE placeItems(_, _)
placeItems(items, base) ==
    IF items = <<>> THEN <<>>
    ELSE LET nodes == ItemNodes(Head(items))
         IN  [j \in 1..Len(nodes) |->
                 [kind |-> nodes[j].kind,
                  par |-> IF nodes[j].up = 0 THEN 1 ELSE base + nodes[j].up]]
                 \o placeItems(Tail(items), base + Len(nodes))
ListTree(list, items) ==
    LET nodes == placeItems(items, 1)
    IN  [n |-> 1 + Len(nodes),
         par |-> <<0>> \o [j \in 1..Len(nodes) |-> nodes[j].par],
         kind |-> <<list>> \o [j \in 1..Len(nodes) |-> nodes[j].kind]]
ListTrees ==
    { ListTree(list, items) : list \in ListPalette, items \in SeqsUpTo(ItemPalette, MaxItems) }

InitList ==
    /\ DedupOff
    /\ ExtractOff
    /\ ConvertOff
    /\ wtree \in ListTrees
    /\ userRules = <<>>
    /\ allRules = <<>>
    /\ wstack = <<>>
    /\ wpc = "idle"
    /\ output = <<>>
    /\ evals = [k \in 1..wtree.n |-> <<>>]
    /\ applied = {}
    /\ emitted = [k \in 1..wtree.n |-> <<>>]
    /\ fellBack = [k \in 1..wtree.n |-> <<>>]
    /\ pushLog = [k \in 1..wtree.n |-> <<>>]
    /\ convertOptions = DEFAULTS

SpecList == InitList /\ [][NextWalk]_vars

\* The <li> children of an <ol> for which the built-in rule returned a
\* string, the number that string begins with, and the start of the list: the
\* value of a decimal start attribute, 1 otherwise.
IsItem(k) == isTag(wtree.kind[k]) /\ wtree.kind[k].name = "li"
Numbered ==
    { e \in applied :
        /\ IsItem(e)
        /\ wtree.par[e] # 0
        /\ wtree.kind[wtree.par[e]].name = "ol"
        /\ evals[e] # <<>>
        /\ LastEval(e).result.kind = "string" }
NumberOf(e) == upTo(LastEval(e).result.text, ".")
StartOf(list) ==
    LET start == attr(list, "start")
    IN  IF start # <<>> /\ \A k \in 1..Len(start) : IsDigit(start[k]) THEN parseInt(start)[1]
        ELSE 1
ItemsBefore(e) == { k \in 1..(e - 1) : wtree.par[k] = wtree.par[e] /\ IsItem(k) }

\* C21: an <li> of an <ol> is numbered start + k, k the number of <li>
\* siblings before it, and the items emitted for one <ol> carry consecutive
\* numbers beginning at start.
C21_ItemNumbering ==
    Converting =>
        \A e \in Numbered :
            /\ NumberOf(e) = toString(StartOf(wtree.par[e]) + Cardinality(ItemsBefore(e)))
            /\ NumberOf(e) = toString(StartOf(wtree.par[e])
                                        + Cardinality(ItemsBefore(e) \cap Numbered))

\* The fence of a code block, and the first line of the text of a <pre>
\* element indented by four spaces.
Fence == repeat(convertOptions.fenceChar, 3)
IndentedLine(e) == <<SP, SP, SP, SP>> \o split(getTextContent(e), NL)[1]

\* C22: with codeBlockStyle "indented" a <pre> element becomes lines indented
\* by four spaces and no fence; with "fenced" it becomes a block between
\* fences of three fenceChar.
C22_CodeBlockStyle ==
    cpc = "returned" =>
        \A e \in PreElements :
            IF convertOptions.codeBlockStyle = "indented"
            THEN /\ ~includes(convertResult[1].markdown, Fence)
                 /\ includes(convertResult[1].markdown, IndentedLine(e))
            ELSE includes(convertResult[1].markdown, Fence)

\* The <a> elements the built-in rule returned a string for, the label of
\* the link and its two forms.
Links == { e \in Linked : wtree.kind[e].name = "a" }
LabelOf(e) == trim(LastEval(e).content[1])
Inlined(e) ==
    LastEval(e).result.text
        = <<"[">> \o LabelOf(e) \o <<"]", "(">> \o attr(e, "href") \o <<")">>
Referenced(e) ==
    \E n \in 1..wtree.n :
        /\ LastEval(e).result.text
               = <<"[">> \o LabelOf(e) \o <<"]", "[">> \o toString(n) \o <<"]">>
        /\ wpc = "done" =>
               includes(output, <<"[">> \o toString(n) \o <<"]", ":", SP>> \o attr(e, "href"))

\* C23: with linkStyle "referenced" a link becomes [text][n] and its
\* definition is appended to the document; with "inlined" it becomes
\* [text](url).
C23_LinkStyle ==
    (Converting /\ convertOptions.baseUrl = <<>>) =>
        \A e \in Links :
            IF convertOptions.linkStyle = "referenced" THEN Referenced(e) ELSE Inlined(e)

(***************************************************************************)
(* The cache of the built-in rules over several calls of convert.          *)
(***************************************************************************)
MaxCacheCalls == 2
CacheRuleLists ==
    { <<>>,
      <<Rule("high", NameFilter("em"), "B", <<10>>),
        Rule("drop", ArrayFilter({"em", "div"}), "null", <<>>)>> }

InitCache ==
    /\ DedupOff
    /\ ExtractOff
    /\ ConvertOff
    /\ wtree \in WalkTrees
    /\ userRules \in CacheRuleLists
    /\ allRules = <<>>
    /\ wstack = <<>>
    /\ wpc = "idle"
    /\ output = <<>>
    /\ evals = [k \in 1..wtree.n |-> <<>>]
    /\ applied = {}
    /\ emitted = [k \in 1..wtree.n |-> <<>>]
    /\ fellBack = [k \in 1..wtree.n |-> <<>>]
    /\ pushLog = [k \in 1..wtree.n |-> <<>>]
    /\ convertOptions = DEFAULTS

\* The caller calls convert once more, on the same document, with rules of
\* its choice.
ConvertNext ==
    /\ wpc = "done"
    /\ cached[1].calls < MaxCacheCalls
    /\ userRules' \in CacheRuleLists
    /\ allRules' = <<>>
    /\ wpc' = "idle"
    /\ output' = <<>>
    /\ evals' = [k \in 1..wtree.n |-> <<>>]
    /\ applied' = {}
    /\ emitted' = [k \in 1..wtree.n |-> <<>>]
    /\ fellBack' = [k \in 1..wtree.n |-> <<>>]
    /\ pushLog' = [k \in 1..wtree.n |-> <<>>]
    /\ UNCHANGED <<wtree, wstack, convertOptions>>
    /\ UNCHANGED <<dedupVars, extractVars, convertVars>>

NextCache ==
    \/ NextWalk
    \/ ConvertNext

SpecCache == InitCache /\ [][NextCache]_vars

\* The built-in rules among the rules a call of convert works with, in the
\* order it tries them.
IsUserRule(r) == \E k \in 1..Len(userRules) : userRules[k].id = r.id
BuiltInSeen == SelectSeq(allRules, LAMBDA r : ~IsUserRule(r))

\* C24: the list of built-in rules is built at most once, stays what it was
\* built as, and every call of convert works with the same built-in rules in
\* the same order.
C24_CacheStable ==
    /\ [](cached # <<>> => cached[1].built = 1 /\ cached[1].rules = getDefaultRules)
    /\ [](Converting => BuiltInSeen = getDefaultRules)
    /\ [][cached # <<>> => (cached' # <<>> /\ cached'[1].rules = cached[1].rules)]_vars

C24_Witness ==
    /\ wpc = "done"
    /\ cached[1].calls = 2
    /\ userRules = <<>>
    /\ \E e \in WElements : evals[e] # <<>> /\ LastEval(e).rule = "em"

(***************************************************************************)
(* Exceptions: a caller's function that throws inside convert.             *)
(***************************************************************************)
\* The extract option: true, { stripClasses: [bad] } and
\* { stripClasses: ['promo', bad] }, bad being a pattern whose test throws.
ThrowExtractPalette ==
    { NoOptions,
      [NoOptions EXCEPT !.stripClasses = <<ThrowingRe>>],
      [NoOptions EXCEPT !.stripClasses = <<PromoString, ThrowingRe>>] }

\* options.rules: none; a rule whose filter throws; a rule for <p> whose
\* replacement throws; and that rule behind one that returns null for <p>.
ThrowRuleLists ==
    { <<>>,
      <<Rule("badFilter", [kind |-> "throwing", names |-> {}], "A", <<>>)>>,
      <<Rule("badReplacement", NameFilter("p"), "throw", <<10>>)>>,
      <<Rule("badReplacement", NameFilter("p"), "throw", <<5>>),
        Rule("drop", NameFilter("p"), "null", <<10>>)>> }

\* options.tokenCounter: absent, one that returns, one that throws.
ThrowCounters == { <<>>, <<"custom">>, <<"throws">> }

\* Whether applyRules handles an exception of a rule: walk, applyRules and
\* convert have no try statement.
applyRulesCatches_SkipRule == TRUE
applyRulesCatches == FALSE

InitThrow ==
    /\ DedupOff
    /\ tree \in ConvertDocs
    /\ children = parsedChildren(tree)
    /\ parentOf = parsedParents(tree)
    /\ options \in ThrowExtractPalette
    /\ stack = <<>>
    /\ lastIndex = 0
    /\ epc = "idle"
    /\ run = "configured"
    /\ remaining = [r \in {} |-> {}]
    /\ wtree = [n |-> 0, par |-> <<>>, kind |-> <<>>]
    /\ userRules \in ThrowRuleLists
    /\ allRules = <<>>
    /\ wstack = <<>>
    /\ wpc = "off"
    /\ output = <<>>
    /\ evals = <<>>
    /\ applied = {}
    /\ emitted = <<>>
    /\ fellBack = <<>>
    /\ pushLog = <<>>
    /\ convertOptions = DEFAULTS
    /\ cpc = "idle"
    /\ deduplicate = [on |-> FALSE, minLength |-> <<>>]
    /\ tokenCounter \in ThrowCounters
    /\ rendered = <<>>
    /\ counterLog = <<>>
    /\ convertResult = <<>>
    /\ cached = <<>>
    /\ thrown = <<>>
    /\ http = <<>>

\* shouldStrip: pattern.test(value) throws; the exception leaves pruneTree,
\* extractContent and convert.
ThrowFromPattern ==
    /\ scanning
    /\ isTag(tree.kind[current])
    /\ patternThrows(tree.kind[current], opts, lastIndex)
    /\ thrown' = Append(thrown, [site |-> "pattern"])
    /\ stack' = <<>>
    /\ epc' = "threw"
    /\ cpc' = "threw"
    /\ UNCHANGED <<tree, children, parentOf, options, lastIndex, run, remaining>>
    /\ UNCHANGED <<deduplicate, tokenCounter, rendered, counterLog, convertResult, cached, http>>
    /\ UNCHANGED <<dedupVars, walkVars>>

\* applyRules: rule.filter(element) or rule.replacement(context) throws; the
\* exception leaves applyRules, every walk and convert.
ThrowFromRule ==
    /\ walking
    /\ isTag(wtree.kind[wchild])
    /\ wrule <= Len(allRules)
    /\ ruleThrows(allRules[wrule])
    /\ thrown' = Append(thrown, [site |-> IF filterThrows(allRules[wrule]) THEN "filter"
                                          ELSE "replacement"])
    /\ IF applyRulesCatches
       THEN /\ wstack' = [wstack EXCEPT ![Len(wstack)] = [wtop EXCEPT !.cursor = wrule + 1]]
            /\ UNCHANGED <<wpc, cpc>>
       ELSE /\ wstack' = <<>>
            /\ wpc' = "threw"
            /\ cpc' = "threw"
    /\ UNCHANGED <<wtree, userRules, convertOptions, allRules, output, evals, applied, emitted,
                   fellBack, pushLog>>
    /\ UNCHANGED <<deduplicate, tokenCounter, rendered, counterLog, convertResult, cached, http>>
    /\ UNCHANGED <<dedupVars, extractVars>>

\* convert: opts.tokenCounter(markdown) throws.
ThrowFromCounter ==
    /\ cpc = "count"
    /\ counterThrows(tokenCounter)
    /\ counterLog' = Append(counterLog, [counter |-> tokenCounter, text |-> rendered])
    /\ thrown' = Append(thrown, [site |-> "tokenCounter"])
    /\ cpc' = "threw"
    /\ UNCHANGED <<deduplicate, tokenCounter, rendered, convertResult, cached, http>>
    /\ UNCHANGED <<dedupVars, extractVars, walkVars>>

NextThrow ==
    \/ ExtractContent
    \/ SkipNonTag
    \/ CollectMatch
    \/ Recurse
    \/ SpliceAndReturn
    \/ WalkDocument
    \/ WalkText
    \/ CallReplacement
    \/ CallConvertChildren
    \/ ReturnToReplacement
    \/ FallBackToWalk
    \/ ReturnFromFallBack
    \/ ReturnToConvert
    \/ Render
    \/ CountAndReturn
    \/ ThrowFromPattern
    \/ ThrowFromRule
    \/ ThrowFromCounter

SpecThrow == InitThrow /\ [][NextThrow]_vars

\* The next call convert makes into the caller's code throws.
PatternThrowing ==
    /\ epc = "prune"
    /\ top.idx < Len(children[top.node])
    /\ isTag(tree.kind[current])
    /\ patternThrows(tree.kind[current], options, lastIndex)
RuleThrowing ==
    /\ wpc = "walk"
    /\ wtop.idx < Len(kids(wtop.node))
    /\ isTag(wtree.kind[wchild])
    /\ wrule <= Len(allRules)
    /\ ruleThrows(allRules[wrule])
CounterThrowing == cpc = "count" /\ counterThrows(tokenCounter)
Throwing == PatternThrowing \/ RuleThrowing \/ CounterThrowing

\* The result is complete: all three fields come from the one final string.
CompleteResult(r) ==
    /\ r.markdown = rendered
    /\ r.tokenEstimate = (IF tokenCounter = <<>> THEN estimateTokens(r.markdown)
                          ELSE customCounter(r.markdown))
    /\ r.contentHash = contentHash(r.markdown)

\* C25: when a user rule's filter or replacement, an extraction pattern or the
\* token counter throws during convert, the exception reaches the caller: the
\* call ends there, nothing runs afterwards, it is not raised a second time and
\* no ConvertResult is returned; a call that returns has met no exception and
\* returns markdown, tokenEstimate and contentHash of the same final string.
C25_NoPartialSuccess ==
    /\ [][Throwing => (cpc' = "threw" /\ Len(thrown') = 1)]_vars
    /\ [](thrown # <<>> => (cpc = "threw" /\ convertResult = <<>> /\ Len(thrown) = 1))
    /\ [][cpc # "threw"]_vars
    /\ [](cpc = "returned" =>
             /\ thrown = <<>>
             /\ Len(convertResult) = 1
             /\ CompleteResult(convertResult[1]))

\* A replacement throws for a <p> after an earlier sibling was converted.
C25_Witness ==
    /\ cpc = "threw"
    /\ thrown = <<[site |-> "replacement"]>>
    /\ applied # {}
    /\ convertResult = <<>>

(***************************************************************************)
(* The middleware adapters for Express and Hono: the Vary header.          *)
(***************************************************************************)
\* Header values are strings; a header is <<value>>, or <<>> when absent.
TextMarkdown == <<"t", "e", "x", "t", "/", "m", "a", "r", "k", "d", "o", "w", "n">>
TextHtml == <<"t", "e", "x", "t", "/", "h", "t", "m", "l">>
ApplicationJson == <<"a", "p", "p", "l", "i", "c", "a", "t", "i", "o", "n", "/", "j", "s", "o", "n">>
AcceptName == <<"A", "c", "c", "e", "p", "t">>
AcceptEncoding == <<"A", "c", "c", "e", "p", "t", "-", "E", "n", "c", "o", "d", "i", "n", "g">>
Origin == <<"O", "r", "i", "g", "i", "n">>
CommaSpace == <<",", SP>>
\* 'text/markdown; charset=utf-8'
MarkdownType ==
    TextMarkdown \o <<";", SP>> \o <<"c", "h", "a", "r", "s", "e", "t", "=", "u", "t", "f", "-", "8">>

\* The Accept header of the request: absent, text/markdown, text/html, and
\* text/html, text/markdown.
AcceptPalette ==
    { <<>>, <<TextMarkdown>>, <<TextHtml>>, <<TextHtml \o CommaSpace \o TextMarkdown>> }
\* The Content-Type of the application's response.
ContentTypes == { TextHtml, ApplicationJson }
\* The Vary header present when the adapter is entered.
ExistingVary == { <<>>, <<AcceptEncoding>>, <<Origin>> }
\* What the application passes to res.send: a string or something else.
Bodies == { "string", "object" }

\* express: existing ? `${String(existing)}, Accept` : 'Accept'
expressVary(existing) ==
    IF existing # <<>> /\ existing[1] # <<>>
    THEN <<existing[1] \o CommaSpace \o AcceptName>>
    ELSE <<AcceptName>>

\* Headers.prototype.append(name, value): the values of one name are joined
\* with ", ".
append(header, value) ==
    IF header = <<>> THEN <<value>> ELSE <<header[1] \o CommaSpace \o value>>

\* typeof req.headers.accept === 'string' ? req.headers.accept : '', and
\* c.req.header('accept') ?? ''
acceptOf(h) == IF h.accept = <<>> THEN <<>> ELSE h.accept[1]

InitVary ==
    /\ DedupOff
    /\ ExtractOff
    /\ WalkOff
    /\ cpc = "off"
    /\ deduplicate = [on |-> FALSE, minLength |-> <<>>]
    /\ tokenCounter = <<>>
    /\ rendered = <<>>
    /\ counterLog = <<>>
    /\ convertResult = <<>>
    /\ cached = <<>>
    /\ thrown = <<>>
    /\ \E adapter \in {"express", "hono"}, accept \in AcceptPalette,
          contentType \in ContentTypes, existing \in ExistingVary :
          http = [adapter |-> adapter, accept |-> accept, contentType |-> contentType,
                  vary |-> IF adapter = "express" THEN existing ELSE <<>>,
                  pc |-> "request", intercepted |-> FALSE, converted |-> FALSE,
                  seen |-> <<>>, sent |-> <<>>]

\* express: the middleware function, up to and including next().
ExpressMarkdown ==
    /\ http # <<>>
    /\ http.adapter = "express"
    /\ http.pc = "request"
    /\ http' = [http EXCEPT !.seen = <<http.vary>>,
                            !.vary = expressVary(http.vary),
                            !.intercepted = includes(acceptOf(http), TextMarkdown),
                            !.pc = "handler"]
    /\ UNCHANGED <<cpc, deduplicate, tokenCounter, rendered, counterLog, convertResult, cached,
                   thrown>>
    /\ UNCHANGED <<dedupVars, extractVars, walkVars>>

\* express: the application's handler calls res.setHeader('vary', value), with
\* a value of its own or one it builds from res.getHeader('vary').
AppSetHeader ==
    /\ http # <<>>
    /\ http.adapter = "express"
    /\ http.pc = "handler"
    /\ \E value \in {<<Origin>>, append(http.vary, Origin)} :
          http' = [http EXCEPT !.vary = value, !.pc = "headersSet"]
    /\ UNCHANGED <<cpc, deduplicate, tokenCounter, rendered, counterLog, convertResult, cached,
                   thrown>>
    /\ UNCHANGED <<dedupVars, extractVars, walkVars>>

\* express: the application calls res.send(body), which is the middleware's
\* function when the request accepts text/markdown.
ExpressSend ==
    /\ http # <<>>
    /\ http.adapter = "express"
    /\ http.pc \in {"handler", "headersSet"}
    /\ \E body \in Bodies :
          LET convert == /\ http.intercepted
                         /\ includes(http.contentType, TextHtml)
                         /\ body = "string"
              contentType == IF convert THEN MarkdownType ELSE http.contentType
          IN  http' = [http EXCEPT !.converted = convert,
                                   !.contentType = contentType,
                                   !.sent = <<[vary |-> http.vary, contentType |-> contentType]>>,
                                   !.pc = "sent"]
    /\ UNCHANGED <<cpc, deduplicate, tokenCounter, rendered, counterLog, convertResult, cached,
                   thrown>>
    /\ UNCHANGED <<dedupVars, extractVars, walkVars>>

\* hono: await next(); the application's handler builds the response.
HonoNext ==
    /\ http # <<>>
    /\ http.adapter = "hono"
    /\ http.pc = "request"
    /\ \E value \in ExistingVary : http' = [http EXCEPT !.vary = value, !.pc = "after"]
    /\ UNCHANGED <<cpc, deduplicate, tokenCounter, rendered, counterLog, convertResult, cached,
                   thrown>>
    /\ UNCHANGED <<dedupVars, extractVars, walkVars>>

\* hono: the middleware after next(); the response is then sent.
HonoMarkdown ==
    /\ http # <<>>
    /\ http.adapter = "hono"
    /\ http.pc = "after"
    /\ LET vary == append(http.vary, AcceptName)
           convert == /\ includes(acceptOf(http), TextMarkdown)
                      /\ includes(http.contentType, TextHtml)
           contentType == IF convert THEN MarkdownType ELSE http.contentType
       IN  http' = [http EXCEPT !.seen = <<http.vary>>,
                                !.vary = vary,
                                !.converted = convert,
                                !.contentType = contentType,
                                !.sent = <<[vary |-> vary, contentType |-> contentType]>>,
                                !.pc = "sent"]
    /\ UNCHANGED <<cpc, deduplicate, tokenCounter, rendered, counterLog, convertResult, cached,
                   thrown>>
    /\ UNCHANGED <<dedupVars, extractVars, walkVars>>

NextVary ==
    \/ ExpressMarkdown
    \/ AppSetHeader
    \/ ExpressSend
    \/ HonoNext
    \/ HonoMarkdown

SpecVary == InitVary /\ [][NextVary]_vars

\* The field names a Vary header lists.
FieldNames(header) ==
    IF header = <<>> THEN {}
    ELSE LET pieces == split(header[1], ",")
         IN  { toLowerCase(trim(pieces[k])) : k \in 1..Len(pieces) }
ListsAccept(header) == toLowerCase(AcceptName) \in FieldNames(header)

\* C26: every response an adapter has handled, converted or not, is sent with
\* a Vary header that lists Accept, and the adapter keeps the field names of
\* the Vary header it finds.
C26_VaryAccept ==
    /\ [](http # <<>> /\ http.pc = "sent" => ListsAccept(http.sent[1].vary))
    /\ [][(http.seen = <<>> /\ http'.seen # <<>>) =>
              FieldNames(http.vary) \subseteq FieldNames(http'.vary)]_vars

(***************************************************************************)
(* The walk state under lists, <pre> and <table>, with rules that call     *)
(* convertChildren on their own node or on another one.                    *)
(***************************************************************************)
MaxContextNodes == 3
ContextKinds ==
    { WText(<<"x">>), WElement("div"), WElement("ul"), WElement("li"), WElement("pre"),
      WElement("table") }
ContextTrees ==
    UNION { { t \in [n : {n}, par : [1..n -> 0..(n - 1)], kind : [1..n -> ContextKinds]] :
                WellFormed(t) } : n \in 0..MaxContextNodes }

\* options.rules: none; the wrap rule for <pre> and <div>; and before it a
\* rule for <div> that converts the children of the first element child.
ContextRuleLists ==
    { <<>>,
      <<Rule("wrap", ArrayFilter({"pre", "div"}), "wrap", <<5>>)>>,
      <<createRule("inner", NameFilter("div"), "inner", <<>>),
        Rule("wrap", ArrayFilter({"pre", "div"}), "wrap", <<5>>)>> }

InitContext ==
    /\ DedupOff
    /\ ExtractOff
    /\ ConvertOff
    /\ wtree \in ContextTrees
    /\ userRules \in ContextRuleLists
    /\ allRules = <<>>
    /\ wstack = <<>>
    /\ wpc = "idle"
    /\ output = <<>>
    /\ evals = [k \in 1..wtree.n |-> <<>>]
    /\ applied = {}
    /\ emitted = [k \in 1..wtree.n |-> <<>>]
    /\ fellBack = [k \in 1..wtree.n |-> <<>>]
    /\ pushLog = [k \in 1..wtree.n |-> <<>>]
    /\ convertOptions = DEFAULTS

\* applyRules: the replacement calls convertChildren(n) for a node n other
\* than its own: walk(n, deriveState(element, state)).
CallConvertOther ==
    /\ walking
    /\ isTag(wtree.kind[wchild])
    /\ wrule <= Len(allRules)
    /\ convertsOther(allRules[wrule], wchild)
    /\ wstack' = Append(wstack,
                        WFrame(firstElementChild(wchild),
                               deriveState(wtree.kind[wchild], wtop.st), "other", wrule))
    /\ UNCHANGED <<wtree, userRules, convertOptions, allRules, wpc, output, evals, applied, emitted,
                   fellBack, pushLog>>
    /\ UNCHANGED <<dedupVars, extractVars, convertVars>>

\* That walk returns into the replacement, which returns the string.
ReturnFromOther ==
    /\ returning
    /\ wtop.mode = "other"
    /\ LET child == kids(wcaller.node)[wcaller.idx + 1]
           result == Str(join(wtop.fragments))
           after == afterRule(wcaller, wtop.rule, result)
       IN  /\ evals' = [evals EXCEPT ![child] =
                           Append(@, [rule |-> allRules[wtop.rule].id, result |-> result,
                                      content |-> <<join(wtop.fragments)>>])]
           /\ wstack' = Append(SubSeq(wstack, 1, Len(wstack) - 2), after)
           /\ applied' = applied \cup {child}
           /\ emitted' = [emitted EXCEPT ![child] = pushedBy(wcaller, after)]
           /\ pushLog' = [pushLog EXCEPT ![child] = logged(wcaller, after)]
    /\ UNCHANGED <<wtree, userRules, convertOptions, allRules, wpc, output, fellBack>>
    /\ UNCHANGED <<dedupVars, extractVars, convertVars>>

NextContext ==
    \/ NextWalk
    \/ CallConvertOther
    \/ ReturnFromOther

SpecContext == InitContext /\ [][NextContext]_vars

\* The elements for which applyRules called a rule and has returned, and the
\* state the rule's context was built from.
Invoked == { e \in WElements : e \in applied /\ evals[e] # <<>> }
ContextOf(e) == pushLog[e][1].st
ProperAncestors(e) == AncestorsOrSelf(wtree.par, wtree.par[e]) \ {0}
AncestorsNamed(e, names) == { a \in ProperAncestors(e) : wtree.kind[a].name \in names }

\* C28: the context of every rule call for an element e has listDepth equal to
\* the number of <ul>/<ol> proper ancestors of e, insidePre true exactly when e
\* has a <pre> proper ancestor and insideTable true exactly when it has a
\* <table> proper ancestor.
C28_ContextFromAncestry ==
    \A e \in Invoked :
        /\ ContextOf(e).listDepth = Cardinality(AncestorsNamed(e, {"ul", "ol"}))
        /\ ContextOf(e).insidePre <=> AncestorsNamed(e, {"pre"}) # {}
        /\ ContextOf(e).insideTable <=> AncestorsNamed(e, {"table"}) # {}

(***************************************************************************)
(* The extractor's effect on the tree.                                     *)
(***************************************************************************)
Members(s) == { s[k] : k \in 1..Len(s) }
Without(s, gone) == SelectSeq(s, LAMBDA x : x \notin gone)
\* Neither the node nor one of its ancestors matches a strip predicate.
Unmatched(k) ==
    \A a \in AncestorsOrSelf(tree.par, k) \ {0} :
        isTag(tree.kind[a]) => ~MatchesConfigured(a, opts)
Survivors == remaining[run]

\* C29: while a children list is scanned nothing in the tree changes and each
\* child the scan matches is collected; when the scan of a node is complete its
\* children list loses exactly the collected children, the others keeping
\* their order, and exactly the collected children have their parent reference
\* cleared; nodes and attributes are never rewritten; so when extractContent
\* returns, every node that matches no strip predicate and has no matching
\* ancestor is still in the document, empty or not, with its parent reference
\* and with its surviving children in their original order.
C29_DetachOnly ==
    /\ [][epc = "prune" =>
            IF top.idx < Len(children[top.node])
            THEN /\ children' = children
                 /\ parentOf' = parentOf
                 /\ (isTag(tree.kind[current])
                       /\ shouldStrip(tree.kind[current], opts, lastIndex).res)
                    => stack'[Len(stack)].toRemove = Append(top.toRemove, current)
            ELSE /\ children' = [children EXCEPT
                                    ![top.node] = Without(@, Members(top.toRemove))]
                 /\ parentOf' = [k \in DOMAIN parentOf |->
                                    IF k \in Members(top.toRemove) THEN <<>>
                                    ELSE parentOf[k]]]_vars
    /\ [][tree' = tree]_vars
    /\ [](epc = "done" =>
            /\ \A k \in 1..tree.n :
                  Unmatched(k) => (k \in Survivors /\ parentOf[k] = <<tree.par[k]>>)
            /\ \A k \in 0..tree.n :
                  (k = 0 \/ Unmatched(k)) =>
                      children[k] = Without(parsedChildren(tree)[k],
                                            (0..tree.n) \ Survivors))

\* Two adjacent siblings were removed, and an empty element that matches
\* nothing stands after them.
C29_Witness ==
    /\ epc = "done"
    /\ \E p \in Survivors :
          LET original == parsedChildren(tree)[p]
          IN  \E j \in 1..(Len(original) - 2) :
                  /\ original[j] \notin Survivors
                  /\ original[j + 1] \notin Survivors
                  /\ parentOf[original[j]] = <<>>
                  /\ parentOf[original[j + 1]] = <<>>
                  /\ original[j + 2] \in Survivors
                  /\ isTag(tree.kind[original[j + 2]])
                  /\ parsedChildren(tree)[original[j + 2]] = <<>>
                  /\ children[p] = <<original[j + 2]>>

(***************************************************************************)
(* The deduplicator's loop as a whole.  deduplicateBlocks is synchronous:   *)
(* once called, the while loop takes its next step, and the function       *)
(* returns when the condition i < blocks.length fails.  The fairness below *)
(* is on that step, described by what it does to the cursor and the        *)
(* position: an iteration moves the cursor forward, the exit returns.      *)
(***************************************************************************)
\* while (i < blocks.length) { ... } return ...: one iteration or the exit.
LoopStep ==
    /\ pc = "loop"
    /\ \/ /\ i < Len(blocks)
          /\ i' \in (i + 1)..Len(blocks)
          /\ pc' = pc
       \/ /\ i >= Len(blocks)
          /\ i' = i
          /\ pc' = "done"

SpecTerminates == Init /\ [][Next]_vars /\ WF_<<pc, i>>(LoopStep)

\* The non-empty blocks of a string, trimmed.
TrimmedBlocks(s) ==
    LET bs == splitBlocks(s)
        all == [k \in 1..Len(bs) |-> trim(bs[k])]
    IN  SelectSeq(all, LAMBDA b : b # <<>>)

\* C30: the kept blocks are non-empty blocks of the input, unchanged, at
\* strictly increasing positions, so in their original order and none more
\* often than it occurs; the output consists of them in that order; the
\* cursor moves forward at every step of the loop and never passes the end of
\* the input; and every call returns.
C30_Subsequence ==
    /\ [](/\ Len(kept) = Len(keptIdx)
          /\ \A j \in 1..Len(keptIdx) :
                /\ keptIdx[j] \in 0..(Len(blocks) - 1)
                /\ kept[j] = blocks[keptIdx[j] + 1]
                /\ trim(kept[j]) # <<>>
          /\ \A j, k \in 1..Len(keptIdx) : j < k => keptIdx[j] < keptIdx[k])
    /\ [](pc = "done" =>
            TrimmedBlocks(results[Len(results)]) = [j \in 1..Len(kept) |-> trim(kept[j])])
    /\ [](pc = "loop" => i <= Len(blocks))
    /\ [][(pc = "loop" /\ pc' = "loop") => i' > i]_vars
    /\ (pc = "loop" ~> pc = "done")

\* A call that dropped a block and kept a later one.
C30_Witness ==
    /\ pc = "done"
    /\ Len(keptIdx) >= 2
    /\ \E k \in 0..(Len(blocks) - 1) :
          /\ trim(blocks[k + 1]) # <<>>
          /\ k \notin { keptIdx[j] : j \in 1..Len(keptIdx) }
          /\ k < keptIdx[Len(keptIdx)]
====
